---- MODULE Spec2Model ----
(***************************************************************************)
(* rippr (src-tauri): the decode loops of audio_analysis.rs, waveform.rs   *)
(* and lib.rs, and the analysis built on them.                             *)
(*                                                                         *)
(* Numbers.  f32/f64 values are modelled by exact integers and rationals.  *)
(* A mono sample is stored as the SUM of its channel values, i.e. in units *)
(* of 1/channels (the division by `channels` is exact that way); every     *)
(* result below that is compared or reported is independent of that unit   *)
(* or monotone in it.                                                      *)
(*                                                                         *)
(* Time scale of the analysis.  detect_bpm works on hops of                *)
(* sample_rate/100 samples.  In the analysis one element of `samples`      *)
(* stands for BLOCK = 44100/100 consecutive equal samples, so that the     *)
(* 44100 Hz that analyze_audio passes to the detectors is 100 blocks per   *)
(* second, and a file's own sample rate is given in blocks per second too. *)
(***************************************************************************)
EXTENDS Integers, Sequences, FiniteSets, TLC

VARIABLES
    op,             \* the operation running: "analyze", "waveform", "convert", "trim",
                    \* or a function called on its own: "detect_key", "detect_bpm",
                    \* "pearson_correlation", "final_filename"; or "queue": the
                    \* queue commands
    sample_rate,    \* track.codec_params.sample_rate of the file
    channels,       \* track.codec_params.channels (count)
    num_points,     \* generate_waveform's argument
    start_time,     \* convert_to_mp3_trimmed's arguments, in half seconds
    end_time,
    arg,            \* the arguments of a function called on its own
    pc,             \* position in the operation's code
    n_read,         \* packets the format reader has handed out so far
    ev,             \* what the last loop iteration met
    samples,        \* Vec<f32> of load_audio_samples / load_audio_samples_for_waveform
    bpm_out,        \* detect_bpm's Ok value once computed, else None
    result,         \* the operation's return value, None while it runs
    start_sample,   \* locals of convert_to_mp3_trimmed
    end_sample,
    current_sample,
    encoded,        \* the samples handed to mp3_encoder.encode so far, in order
    flushes,        \* calls of mp3_encoder.flush
    written,        \* the writes to output_file, in order: "encoded" or "flushed"
    out_created,    \* File::create(output_path) has run
    src_pos,        \* frames of the selected track read so far, decoded or not
    decode_failed,  \* some packet of the selected track failed to decode
    decoded,        \* the samples decoder.decode has returned so far, in order
    CANCEL_DOWNLOAD,\* the static AtomicBool
    dl,             \* the download command running: "none", "download_audio",
                    \* "download_audio_trimmed", "download_audio_internal"
    dl_pc,          \* its position
    dl_result,      \* its return value, None while it runs
    n_downloads,    \* download commands started so far
    final_file,     \* final_path on disk: "absent", "partial", "complete", "tagged"
    temp_file,      \* the downloaded m4a is on disk
    history,        \* rows db::save_download has inserted
    cancel_at,      \* where the running download was, and how many packets its
                    \* converter had read, when cancel_download last ran
    other,          \* a download command for another title, run by another task
    DOWNLOAD_QUEUE, \* the static HashMap: id -> QueueItem
    n_added,        \* items add_to_queue has inserted so far (their ids are 1..n_added)
    calls           \* the process_queue_item calls: position, id, locals, return value

argVars == <<op, sample_rate, channels, num_points, start_time, end_time, arg>>
\* what no step of the operation or of its download command changes
queueVars == <<DOWNLOAD_QUEUE, n_added, calls>>
inVars == <<argVars, other, queueVars>>
loadVars == <<samples, bpm_out>>
convVars == <<start_sample, end_sample, current_sample, encoded, flushes, written,
              out_created, src_pos, decode_failed, decoded>>
dlVars == <<CANCEL_DOWNLOAD, dl, dl_pc, dl_result, n_downloads, final_file, temp_file,
            history, cancel_at>>
vars == <<inVars, pc, n_read, ev, result, loadVars, convVars, dlVars>>

None == [some |-> FALSE]
Some(v) == [some |-> TRUE, v |-> v]
Ok(v) == [ok |-> TRUE, v |-> v]
Err(e) == [ok |-> FALSE, err |-> e]

(***************************************************************************)
(* Bounds of the model.                                                    *)
(***************************************************************************)
IsOk(r) == "ok" \in DOMAIN r /\ r.ok
IsErr(r) == DOMAIN r = {"ok", "err"} /\ ~r.ok

MaxPackets == 3          \* packets in a file

(***************************************************************************)
(* Arithmetic helpers.                                                     *)
(***************************************************************************)
Min(a, b) == IF a < b THEN a ELSE b
Max(a, b) == IF a > b THEN a ELSE b

RECURSIVE SumSeq(_, _, _)
\* iter().sum() over s[lo..hi]
SumSeq(s, lo, hi) ==
    IF lo > hi THEN 0
    ELSE IF lo = hi THEN s[lo]
    ELSE LET m == (lo + hi) \div 2 IN SumSeq(s, lo, m) + SumSeq(s, m + 1, hi)

(***************************************************************************)
(* The packets of a file.  A packet of the selected track that decodes     *)
(* holds `frames` frames of `channels` interleaved samples.                *)
(***************************************************************************)
\* The function f on 1..n as a sequence value (computed once, then only read)
AsSeq(f) == SubSeq(f, 1, Len(f))

\* the f32 that is not a number, as an integer no sample value reaches
NaN == -2147483647 - 1

\* f32 `<` and `>`: false when either side is NaN
Less(a, b) == a # NaN /\ b # NaN /\ a < b

\* The contents of a decoded packet: silence, a click (left channel only) every
\* 32 or 40 frames, a ramp with different channels, or samples that are NaN
\* (a float PCM stream holds whatever bit patterns were stored in it).
Shapes == {"silent", "beat32", "beat40", "ramp", "nan"}

Period(shape) == IF shape = "beat32" THEN 32 ELSE 40

SampleAt(shape, f, c) ==
    CASE shape = "silent" -> 0
      [] shape \in {"beat32", "beat40"} ->
            IF f % Period(shape) = 0 /\ c = 0 THEN 2 ELSE 0
      [] shape = "ramp" -> (f % 3) - 1 - c
      [] shape = "nan" -> NaN

\* buf.samples() after copy_interleaved_ref: frame f, channel c at 1 + f*ch + c
Interleaved(frames, shape, ch) ==
    AsSeq([k \in 1..(frames * ch) |-> SampleAt(shape, (k - 1) \div ch, (k - 1) % ch)])

\* chunk.iter().sum::<f32>(): NaN as soon as one sample of the chunk is
ChunkSum(inter, lo, hi) ==
    IF \E k \in lo..hi : inter[k] = NaN THEN NaN ELSE SumSeq(inter, lo, hi)

\* interleaved.chunks(channels), each chunk summed (the mono value times channels)
MonoChunks(inter, ch) ==
    LET n == (Len(inter) + ch - 1) \div ch
    IN  AsSeq([j \in 1..n |-> ChunkSum(inter, (j - 1) * ch + 1, Min(j * ch, Len(inter)))])

(***************************************************************************)
(* detect_bpm (audio_analysis.rs).  Rationals are records [n, d], d > 0.   *)
(***************************************************************************)
Rat(n, d) == [n |-> n, d |-> d]
RatLess(a, b) == a.n * b.d < b.n * a.d

\* The iterations of `while i + frame_size < samples.len() { ...; i += hop_size }`
\* from i = 0: iteration k (from 0) runs iff k * hop_size + frame_size < len,
\* and once one does not run none after it does.
\* the loop condition taken as `i + frame_size <= samples.len()`
CountFramesInclusive(len, frame_size, hop_size) ==
    Cardinality({k \in 0..len : k * hop_size + frame_size <= len})

CountFrames(len, frame_size, hop_size) ==
    Cardinality({k \in 0..len : k * hop_size + frame_size < len})

Squares(s) == AsSeq([i \in 1..Len(s) |-> s[i] * s[i]])

EnergiesOf(sq, cnt, frame_size, hop_size) ==
    AsSeq([k \in 1..cnt |->
              SumSeq(sq, (k - 1) * hop_size + 1, (k - 1) * hop_size + frame_size)])

\* energies[k] (k from 1) is the energy of the frame that starts at (k-1)*hop_size
Energies(s, frame_size, hop_size) ==
    EnergiesOf(Squares(s), CountFrames(Len(s), frame_size, hop_size), frame_size, hop_size)

\* onsets before normalisation: vec![0.0] then max(energies[i] - energies[i-1], 0)
Onsets(energies) ==
    AsSeq([i \in 1..Len(energies) |->
              IF i = 1 THEN 0 ELSE Max(energies[i] - energies[i - 1], 0)])

RECURSIVE MaxOnset(_, _, _)
\* onsets.iter().cloned().fold(0.0, f32::max) over onsets[lo..hi]
MaxOnset(onsets, lo, hi) ==
    IF lo > hi THEN 0
    ELSE IF lo = hi THEN Max(0, onsets[lo])
    ELSE Max(MaxOnset(onsets, lo, (lo + hi) \div 2),
             MaxOnset(onsets, ((lo + hi) \div 2) + 1, hi))

PositiveOr1(max_onset) == IF max_onset > 0 THEN max_onset ELSE 1

\* The normalised onsets are onsets[i] / OnsetScale: max_onset, or 1 when
\* max_onset is 0 and the code leaves the onsets as they are.
OnsetScale(onsets) == PositiveOr1(MaxOnset(onsets, 1, Len(onsets)))

\* (frames_per_second * 60.0 / max_bpm) as usize, frames_per_second = rate / hop
MinLag(rate, hop_size) == (rate * 60) \div (hop_size * 200)
\* (frames_per_second * 60.0 / min_bpm) as usize, then .min(onsets.len() / 2)
MaxLag(rate, hop_size, onsets_len) ==
    Min((rate * 60) \div (hop_size * 60), onsets_len \div 2)

RECURSIVE SumProducts(_, _, _, _)
\* the sum of onsets[i] * onsets[i + lag] over i in lo..hi
SumProducts(onsets, lag, lo, hi) ==
    IF lo > hi THEN 0
    ELSE IF lo = hi THEN onsets[lo] * onsets[lo + lag]
    ELSE SumProducts(onsets, lag, lo, (lo + hi) \div 2)
         + SumProducts(onsets, lag, ((lo + hi) \div 2) + 1, hi)

\* the inner loop: sum of onsets[i] * onsets[i + lag] over count, divided by count
Correlation(onsets, scale, lag) ==
    Rat(SumProducts(onsets, lag, 1, Len(onsets) - lag),
        scale * scale * (Len(onsets) - lag))

\* the update taken as `if correlation >= best_correlation { .. }`
BetterOrEqual(best, correlation, lag) ==
    IF RatLess(correlation, best.corr) THEN best ELSE [corr |-> correlation, lag |-> lag]

\* `if correlation > best_correlation { .. }`; best = [corr, lag], lag 0 while
\* no lag has won
Better(best, correlation, lag) ==
    IF RatLess(best.corr, correlation) THEN [corr |-> correlation, lag |-> lag] ELSE best

\* one iteration of `for lag in min_lag..max_lag`
LagStep(onsets, scale, lag, best) ==
    Better(best, Correlation(onsets, scale, lag), lag)

RECURSIVE LagLoop(_, _, _, _, _)
\* the iterations lo .. hi-1 after the earlier ones gave `best` (best.lag >= 0
\* always: the test makes `best` be computed before the iterations that use it)
LagRest(onsets, scale, lo, hi, best) ==
    IF best.lag >= 0 THEN LagLoop(onsets, scale, lo, hi, best) ELSE best

\* the iterations lo .. hi-1 in order, starting from best
LagLoop(onsets, scale, lo, hi, best) ==
    IF lo >= hi THEN best
    ELSE IF lo + 1 = hi THEN LagStep(onsets, scale, lo, best)
    ELSE LagRest(onsets, scale, (lo + hi) \div 2, hi,
                 LagLoop(onsets, scale, lo, (lo + hi) \div 2, best))

DefaultBpm == 120

\* best_bpm before folding: 120.0, or frames_per_second * 60.0 / lag
BestBpm(rate, hop_size, lag) ==
    IF lag = 0 THEN Rat(DefaultBpm, 1) ELSE Rat(rate * 60, hop_size * lag)

RECURSIVE FoldUp(_)
\* while best_bpm < 60.0 { best_bpm *= 2.0 }
FoldUp(b) == IF b.n < 60 * b.d THEN FoldUp(Rat(2 * b.n, b.d)) ELSE b

RECURSIVE FoldDownTo200(_)
\* the halving loop with max_bpm, 200, as its limit
FoldDownTo200(b) == IF b.n > 200 * b.d THEN FoldDownTo200(Rat(b.n, 2 * b.d)) ELSE b

RECURSIVE FoldDown(_)
\* while best_bpm > 180.0 { best_bpm /= 2.0 }
FoldDown(b) == IF b.n > 180 * b.d THEN FoldDown(Rat(b.n, 2 * b.d)) ELSE b

\* f64::round of a positive value
Round(b) == (2 * b.n + b.d) \div (2 * b.d)

\* (best_correlation * 100.0).min(100.0)
BpmConfidence(corr) ==
    IF corr.n * 100 > 100 * corr.d THEN Rat(100, 1) ELSE Rat(corr.n * 100, corr.d)

\* lines 188-202; `lag` and `frames` are not returned by the code: they record
\* the winning lag (0: none) and energies.len()
BpmResult(best, rate, hop_size, frames) ==
    Ok([bpm |-> Round(FoldDown(FoldUp(BestBpm(rate, hop_size, best.lag)))),
        confidence |-> BpmConfidence(best.corr),
        lag |-> best.lag,
        frames |-> frames])

\* lines 145-186
BpmOfOnsets(onsets, rate, hop_size) ==
    BpmResult(LagLoop(onsets, OnsetScale(onsets), MinLag(rate, hop_size),
                      MaxLag(rate, hop_size, Len(onsets)),
                      [corr |-> Rat(0, 1), lag |-> 0]),
              rate, hop_size, Len(onsets))

\* lines 141-143
BpmOfEnergies(energies, rate, hop_size) ==
    IF Len(energies) < 10 THEN Err("Not enough data for BPM detection")
    ELSE BpmOfOnsets(Onsets(energies), rate, hop_size)

detect_bpm(s, rate) ==
    IF Len(s) < rate * 2 THEN Err("Audio too short for BPM detection")
    ELSE BpmOfEnergies(Energies(s, rate \div 10, rate \div 100), rate, rate \div 100)

(***************************************************************************)
(* Exact comparison of correlation coefficients.  A Pearson coefficient is *)
(* num / sqrt(dx * dy) with integers num, dx, dy: a record [num, dx, dy]   *)
(* (dx * dy > 0).  Comparing two of them compares num^2 * dx * dy          *)
(* products, which need more than 32 bits: Big numbers are sequences of    *)
(* base-10000 digits, least significant first.                             *)
(***************************************************************************)
BigBase == 100 * 100

BigOf(n) == <<n % BigBase, (n \div BigBase) % BigBase, n \div (BigBase * BigBase)>>

RECURSIVE BigCoef(_, _, _, _), BigDigits(_, _, _, _), BigDigit(_, _, _, _)
\* the sum of a[i] * b[k - i + 1] over the i from `i` on for which both exist
BigCoef(a, b, k, i) ==
    IF i > Len(a) \/ i > k THEN 0
    ELSE (IF k - i < Len(b) THEN a[i] * b[k - i + 1] ELSE 0) + BigCoef(a, b, k, i + 1)

\* the digits of a * b from digit k on, `carry` coming in
BigDigits(a, b, k, carry) ==
    IF k > Len(a) + Len(b) THEN <<>>
    ELSE BigDigit(a, b, k, BigCoef(a, b, k, 1) + carry)

BigDigit(a, b, k, t) == <<t % BigBase>> \o BigDigits(a, b, k + 1, t \div BigBase)

\* Len(a) + Len(b) digits
BigMul(a, b) == BigDigits(a, b, 1, 0)

RECURSIVE BigLessFrom(_, _, _)
BigLessFrom(a, b, i) ==
    IF i = 0 THEN FALSE
    ELSE IF a[i] # b[i] THEN a[i] < b[i]
    ELSE BigLessFrom(a, b, i - 1)

\* a < b for Big numbers of the same length
BigLess(a, b) == BigLessFrom(a, b, Len(a))

Abs(n) == IF n < 0 THEN -n ELSE n
Sign(n) == IF n < 0 THEN -1 ELSE IF n > 0 THEN 1 ELSE 0

NegInfinity == [inf |-> TRUE, num |-> -1, dx |-> 1, dy |-> 1]
Coef(num, dx, dy) == [inf |-> FALSE, num |-> num, dx |-> dx, dy |-> dy]

\* num(a)^2 * dx(b) * dy(b)
CoefCross(a, b) ==
    BigMul(BigMul(BigOf(Abs(a.num)), BigOf(Abs(a.num))), BigMul(BigOf(b.dx), BigOf(b.dy)))

\* a < b as real numbers (f64 `<`)
CoefLess(a, b) ==
    IF b.inf THEN FALSE
    ELSE IF a.inf THEN TRUE
    ELSE IF Sign(a.num) # Sign(b.num) THEN Sign(a.num) < Sign(b.num)
    ELSE IF a.num > 0 THEN BigLess(CoefCross(a, b), CoefCross(b, a))
    ELSE IF a.num < 0 THEN BigLess(CoefCross(b, a), CoefCross(a, b))
    ELSE FALSE


(***************************************************************************)
(* detect_key (audio_analysis.rs).  The profiles are in hundredths.        *)
(***************************************************************************)
MAJOR_PROFILE == <<635, 223, 348, 233, 438, 409, 252, 519, 239, 366, 229, 288>>
MINOR_PROFILE == <<633, 268, 352, 538, 260, 353, 254, 475, 398, 269, 334, 317>>
KEY_NAMES == <<"C", "C#", "D", "D#", "E", "F", "F#", "G", "G#", "A", "A#", "B">>

CoefOrZero(numerator, dx, dy) ==
    IF dx = 0 \/ dy = 0 THEN Coef(0, 1, 1) ELSE Coef(numerator, dx, dy)

Products(x, y) == [i \in 1..Len(x) |-> x[i] * y[i]]

PearsonOfSums(n, sum_x, sum_y, sum_xy, sum_x2, sum_y2) ==
    CoefOrZero(n * sum_xy - sum_x * sum_y,
               n * sum_x2 - sum_x * sum_x,
               n * sum_y2 - sum_y * sum_y)

\* pearson_correlation(x, y) over exact numbers; 0.0 when the denominator is
\* 0.0.  pearson_correlation_f64 below has the rounding of the f64 operations.
pearson_correlation(x, y) ==
    PearsonOfSums(Len(x), SumSeq(x, 1, Len(x)), SumSeq(y, 1, Len(x)),
                  SumSeq(Products(x, y), 1, Len(x)),
                  SumSeq(Products(x, x), 1, Len(x)),
                  SumSeq(Products(y, y), 1, Len(x)))

\* the rotation taken the other way round
RotateBack(v, root) == AsSeq([i \in 1..12 |-> v[((i - 1 - root + 12) % 12) + 1]])

\* rotated[i] = normalized[(i + root) % 12], indices from 0 in the code
Rotate(v, root) == AsSeq([i \in 1..12 |-> v[((i - 1 + root) % 12) + 1]])

NormalizedBy(chromagram, sum) ==
    [num |-> chromagram, den |-> IF sum > 0 THEN sum ELSE 1]

\* The chromagram divided by its sum when the sum is positive.  The vector is
\* kept as numerators over the common denominator `den`; pearson_correlation
\* of v/den and of v are the same number for den > 0.
Normalized(chromagram) == NormalizedBy(chromagram, SumSeq(chromagram, 1, 12))

\* `if corr > best_correlation { best_correlation = corr; best_key = .. }`
BetterKey(best, corr, root, mode) ==
    IF CoefLess(best.corr, corr) THEN [corr |-> corr, root |-> root, mode |-> mode] ELSE best

\* one iteration of `for root in 0..12`: major first, then minor.  (The sets
\* of one element bind a value before it is used, as `let` does in the code.)
RootStep(rotated, root, best) ==
    CHOOSE r \in
        { BetterKey(b, minor_corr, root, "minor") :
            b \in { BetterKey(best, major_corr, root, "major") :
                      major_corr \in {pearson_correlation(rotated, MAJOR_PROFILE)} },
            minor_corr \in {pearson_correlation(rotated, MINOR_PROFILE)} } : TRUE

RECURSIVE RootLoop(_, _, _)
RootLoop(normalized, root, best) ==
    IF root >= 12 THEN best
    ELSE CHOOSE r \in
            { RootLoop(normalized, root + 1, b) :
                b \in {RootStep(Rotate(normalized.num, root), root, best)} } : TRUE

\* format!("{} Major", ..) / format!("{}m", ..); "C" while nothing has been chosen
KeyLabel(best) ==
    IF best.mode = "none" THEN "C"
    ELSE IF best.mode = "major" THEN KEY_NAMES[best.root + 1] \o " Major"
    ELSE KEY_NAMES[best.root + 1] \o "m"

\* k/half - 1 as a coefficient: (k - half) / sqrt(half^2)
Level(k, half) == Coef(k - half, half * half, 1)

RECURSIVE FloorIn(_, _, _, _)
\* the largest k in lo..hi with k <= (corr + 1) * half, given that lo is one
FloorIn(corr, half, lo, hi) ==
    IF lo >= hi THEN lo
    ELSE IF ~CoefLess(corr, Level((lo + hi + 1) \div 2, half))
         THEN FloorIn(corr, half, (lo + hi + 1) \div 2, hi)
         ELSE FloorIn(corr, half, lo, ((lo + hi + 1) \div 2) - 1)

RECURSIVE CeilIn(_, _, _, _)
\* the smallest k in lo..hi with (corr + 1) * half <= k, given that hi is one
CeilIn(corr, half, lo, hi) ==
    IF lo >= hi THEN hi
    ELSE IF ~CoefLess(Level((lo + hi) \div 2, half), corr)
         THEN CeilIn(corr, half, lo, (lo + hi) \div 2)
         ELSE CeilIn(corr, half, ((lo + hi) \div 2) + 1, hi)

\* Integers lo <= (corr + 1) * half <= hi, the closest in kmin..kmax
\* (kmin, kmax when the value is outside kmin..kmax)
Enclose(corr, half, kmin, kmax) ==
    [lo |-> IF CoefLess(corr, Level(kmin, half)) THEN kmin
            ELSE FloorIn(corr, half, kmin, kmax),
     hi |-> IF CoefLess(Level(kmax, half), corr) THEN kmax
            ELSE CeilIn(corr, half, kmin, kmax)]

Clamp(raw, lo, hi) == [lo |-> Min(Max(raw.lo, lo), hi), hi |-> Min(Max(raw.hi, lo), hi)]

\* (best_correlation + 1.0) * 100.0, neither halved nor clamped
KeyConfidenceUnscaled(best_correlation) == Enclose(best_correlation, 100, -1, 201)

\* ((best_correlation + 1.0) / 2.0 * 100.0).max(0.0).min(100.0), as the integers
\* just below and just above it (the value itself is irrational in general)
KeyConfidence(best_correlation) == Clamp(Enclose(best_correlation, 50, -1, 101), 0, 100)

\* `root` and `mode` are not returned by the code: they record the candidate chosen
KeyResult(best) ==
    Ok([key |-> KeyLabel(best),
        confidence |-> KeyConfidence(best.corr),
        root |-> best.root,
        mode |-> best.mode])

detect_key(s, rate, chromagram) ==
    IF Len(s) < rate THEN Err("Audio too short for key detection")
    ELSE CHOOSE r \in
            { KeyResult(best) :
                best \in {RootLoop(Normalized(chromagram), 0,
                                   [corr |-> NegInfinity, root |-> 0, mode |-> "none"])} } : TRUE

(***************************************************************************)
(* compute_chromagram (audio_analysis.rs:260-322) sums, per pitch class,   *)
(* the positive windowed autocorrelations of 4096-sample frames.  Its      *)
(* cosine window and its lags are not computed here: the chromagram is any *)
(* of the vectors below (non-negative, as every sum of positive terms is), *)
(* and the zero vector when every sample is 0.                             *)
(***************************************************************************)
ZeroChroma == [i \in 1..12 |-> 0]
Chromagrams ==
    { ZeroChroma,
      [i \in 1..12 |-> 1],
      [i \in 1..12 |-> MINOR_PROFILE[((i - 1 + 3) % 12) + 1]],
      [i \in 1..12 |-> IF i = 10 THEN 5 ELSE IF i = 5 THEN 1 ELSE 0] }

compute_chromagram(s, rate) ==
    IF \A i \in 1..Len(s) : s[i] = 0 THEN {ZeroChroma} ELSE Chromagrams

(***************************************************************************)
(* generate_waveform (waveform.rs), after the samples are loaded.          *)
(***************************************************************************)
\* a value above every sample that is a number, standing for f32::MAX; f32::MIN
\* is its negative
F32_MAX == 2147483647
F32_MIN == -F32_MAX

Panic(msg) == [ok |-> FALSE, panic |-> msg]

RECURSIVE MinVal(_, _, _, _)
\* `if sample < min_val { min_val = sample; }` over s[lo..hi]
MinVal(s, lo, hi, min_val) ==
    IF lo > hi THEN min_val
    ELSE MinVal(s, lo + 1, hi, IF Less(s[lo], min_val) THEN s[lo] ELSE min_val)

RECURSIVE MaxVal(_, _, _, _)
\* `if sample > max_val { max_val = sample; }` over s[lo..hi]
MaxVal(s, lo, hi, max_val) ==
    IF lo > hi THEN max_val
    ELSE MaxVal(s, lo + 1, hi, IF Less(max_val, s[lo]) THEN s[lo] ELSE max_val)

\* the point of the segment &samples[start..end] (indices from 0, end excluded)
WaveformPoint(s, start, end) ==
    IF start >= end THEN [min |-> 0, max |-> 0]
    ELSE [min |-> MinVal(s, start + 1, end, F32_MAX),
          max |-> MaxVal(s, start + 1, end, F32_MIN)]

\* `start = i * samples_per_point` and
\* `end = ((i + 1) * samples_per_point).min(samples.len())`, for i counted from 1
SegmentStart(i, samples_per_point) == (i - 1) * samples_per_point
SegmentEnd(i, samples_per_point, len) == Min(i * samples_per_point, len)

\* `for i in 0..num_points`
WaveformLoop(s, points, samples_per_point) ==
    [i \in 1..points |->
        WaveformPoint(s, SegmentStart(i, samples_per_point),
                      SegmentEnd(i, samples_per_point, Len(s)))]

generate_waveform(s, points) ==
    IF s = <<>> THEN Err("No audio samples loaded")
    ELSE IF points = 0 THEN Panic("attempt to divide by zero")
    ELSE IF Len(s) \div points = 0 THEN Err("Audio too short for requested resolution")
    ELSE Ok(WaveformLoop(s, points, Len(s) \div points))

(***************************************************************************)
(* The files of the model.                                                 *)
(***************************************************************************)
\* 44100 Hz, the rate analyze_audio passes to both detectors, in blocks per second
BLOCK == 44100 \div 100
ANALYSIS_RATE == 44100 \div BLOCK
\* seconds kept by load_audio_samples
MaxSeconds == 60

\* The files analysed: sample rate in blocks per second (1764, 44100, 88200 Hz)
AnalyzeFiles ==
    { [rate |-> 4, channels |-> 1],
      [rate |-> 100, channels |-> 2],
      [rate |-> 200, channels |-> 2] }
\* their packets: frames are counted in blocks
AnalyzePackets ==
    { [frames |-> 100, shape |-> "silent"],
      [frames |-> 100, shape |-> "beat32"],
      [frames |-> 120, shape |-> "beat40"] }

\* The files summarised by generate_waveform, and their packets
WaveformFiles == { [rate |-> 1, channels |-> 1], [rate |-> 1, channels |-> 2] }
WaveformPackets ==
    { [frames |-> 1, shape |-> "beat32"],
      [frames |-> 1, shape |-> "nan"],
      [frames |-> 2, shape |-> "ramp"],
      [frames |-> 3, shape |-> "ramp"] }

PacketsOf(o) == IF o = "analyze" THEN AnalyzePackets ELSE WaveformPackets

OpenErrors ==
    {"Failed to open file", "Failed to probe audio", "No audio track found",
     "Failed to create decoder"}

\* decoder.decode() failures: Error::DecodeError, and the other kinds (IoError, ..)
DecodeFailures == {"decode_error", "decode_io_error"}

(***************************************************************************)
(* load_audio_samples and load_audio_samples_for_waveform: the loop.       *)
(***************************************************************************)
Loading == op \in {"analyze", "waveform"} /\ pc = "loop"
max_samples == sample_rate * MaxSeconds
AtCap == op = "analyze" /\ Len(samples) >= max_samples

\* File::open .. get_codecs().make(): any of them may fail
LoadOpen ==
    /\ op \in {"analyze", "waveform"} /\ pc = "open"
    /\ \/ /\ pc' = "loop"
          /\ UNCHANGED result
       \/ /\ \E e \in OpenErrors : result' = Err(e)
          /\ pc' = "done"
    /\ UNCHANGED <<dlVars, inVars, n_read, ev, loadVars, convVars>>

\* `if samples.len() >= max_samples { break; }` (load_audio_samples only)
LoadCap ==
    /\ Loading /\ AtCap
    /\ pc' = "loaded"
    /\ ev' = "cap"
    /\ UNCHANGED <<dlVars, inVars, n_read, result, loadVars, convVars>>

\* next_packet() is Err(_), the end of the stream or any other error: break
LoadEnd ==
    /\ Loading /\ ~AtCap
    /\ ev' = "no_packet"
    /\ pc' = "loaded"
    /\ UNCHANGED <<dlVars, inVars, n_read, result, loadVars, convVars>>

\* a packet of another track: continue
LoadOtherTrack ==
    /\ Loading /\ ~AtCap /\ n_read < MaxPackets
    /\ n_read' = n_read + 1
    /\ ev' = "other_track"
    /\ UNCHANGED <<dlVars, inVars, pc, result, loadVars, convVars>>

\* decoder.decode() is Err(_), of any kind: continue
LoadDecodeFail ==
    /\ Loading /\ ~AtCap /\ n_read < MaxPackets
    /\ n_read' = n_read + 1
    /\ \E e \in DecodeFailures : ev' = e
    /\ UNCHANGED <<dlVars, inVars, pc, result, loadVars, convVars>>

\* the packet decodes: one mono sample per chunk of `channels` samples is pushed
LoadDecoded ==
    /\ Loading /\ ~AtCap /\ n_read < MaxPackets
    /\ n_read' = n_read + 1
    /\ ev' = "decoded"
    /\ \E p \in PacketsOf(op) :
          samples' = samples \o MonoChunks(Interleaved(p.frames, p.shape, channels), channels)
    /\ UNCHANGED <<dlVars, inVars, pc, result, bpm_out, convVars>>

(***************************************************************************)
(* analyze_audio, after load_audio_samples returned Ok(samples).           *)
(***************************************************************************)
\* an AudioAnalysis that leaves the key out when its confidence is low
AudioAnalysisPartial(bpm, key) ==
    Ok([bpm |-> Some(bpm.bpm),
        bpm_confidence |-> Some(bpm.confidence),
        key |-> IF key.confidence.hi < 100 THEN None ELSE Some(key.key),
        key_confidence |-> Some(key.confidence)])

\* Ok(AudioAnalysis { bpm: Some(bpm), .. })
AudioAnalysis(bpm, key) ==
    Ok([bpm |-> Some(bpm.bpm),
        bpm_confidence |-> Some(bpm.confidence),
        key |-> Some(key.key),
        key_confidence |-> Some(key.confidence)])

\* `if samples.is_empty()` and `detect_bpm(&samples, 44100)?`
AnalyzeBpm ==
    /\ op = "analyze" /\ pc = "loaded"
    /\ IF samples = <<>>
       THEN /\ result' = Err("No audio samples loaded")
            /\ pc' = "done"
            /\ UNCHANGED bpm_out
       ELSE LET r == detect_bpm(samples, ANALYSIS_RATE)
            IN  IF r.ok
                THEN /\ bpm_out' = Some(r.v)
                     /\ pc' = "key"
                     /\ UNCHANGED result
                ELSE /\ result' = r
                     /\ pc' = "done"
                     /\ UNCHANGED bpm_out
    /\ UNCHANGED <<dlVars, inVars, n_read, ev, samples, convVars>>

\* `detect_key(&samples, 44100)?` and Ok(AudioAnalysis { .. })
AnalyzeKey ==
    /\ op = "analyze" /\ pc = "key"
    /\ \E chromagram \in compute_chromagram(samples, ANALYSIS_RATE) :
          LET r == detect_key(samples, ANALYSIS_RATE, chromagram)
          IN  result' = IF r.ok THEN AudioAnalysis(bpm_out.v, r.v) ELSE r
    /\ pc' = "done"
    /\ UNCHANGED <<dlVars, inVars, n_read, ev, loadVars, convVars>>

\* generate_waveform once load_audio_samples_for_waveform returned Ok(samples)
GenerateWaveform ==
    /\ op = "waveform" /\ pc = "loaded"
    /\ result' = generate_waveform(samples, num_points)
    /\ pc' = "done"
    /\ UNCHANGED <<dlVars, inVars, n_read, ev, loadVars, convVars>>

(***************************************************************************)
(* convert_to_mp3 and convert_to_mp3_trimmed (lib.rs).  A sample of the    *)
(* selected track is named by its place in the file: the sample of channel *)
(* c of frame f is f * channels + c.                                       *)
(***************************************************************************)
\* the files converted: rate in frames per second
ConvertFiles == { [rate |-> 3, channels |-> 1], [rate |-> 3, channels |-> 2] }
\* frames in one packet
ConvertFrames == {1, 2, 3}
\* start_time and end_time in half seconds; -1 is a time below zero
MaxTime == 5
TrimTimes == -1..MaxTime

\* `(time * sample_rate as f64) as u64` for the time n / d: the cast truncates,
\* and takes what is below zero to 0
ToU64(n, d) == IF n < 0 THEN 0 ELSE n \div d

\* buf.samples() of the packet that starts at frame `first`
PacketSamples(first, frames, ch) == [k \in 1..(frames * ch) |-> first * ch + k - 1]

\* the failures before the output file exists
ConvertOpenErrors ==
    {"Failed to open input file", "Failed to probe audio format", "No audio track found",
     "Unknown sample rate", "Failed to create decoder", "Failed to create MP3 encoder",
     "Failed to set channels", "Failed to set sample rate", "Failed to set bitrate",
     "Failed to set quality", "Failed to build MP3 encoder"}

Converting == op \in {"convert", "trim"} /\ pc = "loop"

\* every decode failure skipped, in the four loops alike
SkippedAlways(o, kind) == TRUE

\* `Err(DecodeError(_)) => continue` against `Err(e) => return Err(..)`; the
\* loaders have `Err(_) => continue`
Skipped(o, kind) == o \in {"analyze", "waveform"} \/ kind = "decode_error"

\* File::create taken first, before the input is opened
ConvOpenCreateFirst ==
    /\ op \in {"convert", "trim"} /\ pc = "open"
    /\ \/ /\ result' = Err("Failed to create output file")
          /\ pc' = "done"
          /\ UNCHANGED <<start_sample, end_sample, out_created>>
       \/ /\ out_created' = TRUE
          /\ \/ /\ \E e \in ConvertOpenErrors : result' = Err(e)
                /\ pc' = "done"
                /\ UNCHANGED <<start_sample, end_sample>>
             \/ /\ start_sample' = IF op = "trim" THEN ToU64(start_time * sample_rate, 2)
                                    ELSE 0
                /\ end_sample' = IF op = "trim" THEN ToU64(end_time * sample_rate, 2) ELSE 0
                /\ pc' = "loop"
                /\ UNCHANGED result
    /\ UNCHANGED <<dlVars, inVars, n_read, ev, loadVars, current_sample, encoded, flushes,
                   written, src_pos, decode_failed, decoded>>

\* File::open .. mp3_encoder.build(), the trim positions, File::create
ConvOpen ==
    /\ op \in {"convert", "trim"} /\ pc = "open"
    /\ \/ /\ \E e \in ConvertOpenErrors : result' = Err(e)
          /\ pc' = "done"
          /\ UNCHANGED <<start_sample, end_sample, out_created>>
       \/ /\ start_sample' = IF op = "trim" THEN ToU64(start_time * sample_rate, 2) ELSE 0
          /\ end_sample' = IF op = "trim" THEN ToU64(end_time * sample_rate, 2) ELSE 0
          /\ \/ /\ result' = Err("Failed to create output file")
                /\ pc' = "done"
                /\ UNCHANGED out_created
             \/ /\ out_created' = TRUE
                /\ pc' = "loop"
                /\ UNCHANGED result
    /\ UNCHANGED <<dlVars, inVars, n_read, ev, loadVars, current_sample, encoded, flushes,
                   written, src_pos, decode_failed, decoded>>

\* the end of the stream taken for a read failure
ConvEofAsError ==
    /\ Converting
    /\ ev' = "eof"
    /\ result' = Err("Failed to read packet")
    /\ pc' = "done"
    /\ UNCHANGED <<dlVars, inVars, n_read, loadVars, convVars>>

\* next_packet() is IoError of kind UnexpectedEof, the end of the stream: break
ConvEof ==
    /\ Converting
    /\ ev' = "eof"
    /\ pc' = "flush"
    /\ UNCHANGED <<dlVars, inVars, n_read, result, loadVars, convVars>>

\* next_packet() is any other error: return Err
ConvReadError ==
    /\ Converting
    /\ ev' = "read_error"
    /\ result' = Err("Failed to read packet")
    /\ pc' = "done"
    /\ UNCHANGED <<dlVars, inVars, n_read, loadVars, convVars>>

\* a packet of another track: continue
ConvOtherTrack ==
    /\ Converting /\ n_read < MaxPackets
    /\ n_read' = n_read + 1
    /\ ev' = "other_track"
    /\ UNCHANGED <<dlVars, inVars, pc, result, loadVars, convVars>>

\* a packet that fails to decode counted in current_sample all the same
ConvDecodeFailCounted ==
    /\ Converting /\ n_read < MaxPackets
    /\ n_read' = n_read + 1
    /\ \E frames \in ConvertFrames :
          /\ src_pos' = src_pos + frames
          /\ current_sample' = current_sample + frames
    /\ decode_failed' = TRUE
    /\ \E e \in DecodeFailures :
          /\ ev' = e
          /\ IF Skipped(op, e)
             THEN UNCHANGED <<pc, result>>
             ELSE /\ result' = Err("Failed to decode")
                  /\ pc' = "done"
    /\ UNCHANGED <<dlVars, inVars, loadVars, start_sample, end_sample, encoded,
                   flushes, written, out_created, decoded>>

\* decoder.decode() fails on a packet of the selected track
ConvDecodeFail ==
    /\ Converting /\ n_read < MaxPackets
    /\ n_read' = n_read + 1
    /\ \E frames \in ConvertFrames : src_pos' = src_pos + frames
    /\ decode_failed' = TRUE
    /\ \E e \in DecodeFailures :
          /\ ev' = e
          /\ IF Skipped(op, e)
             THEN UNCHANGED <<pc, result>>
             ELSE /\ result' = Err("Failed to decode")
                  /\ pc' = "done"
    /\ UNCHANGED <<dlVars, inVars, loadVars, start_sample, end_sample, current_sample, encoded,
                   flushes, written, out_created, decoded>>

\* mp3_encoder.encode(input) and output_file.write_all(mp3_bytes), either of
\* which may fail; `go_on` is the position the code goes to when both succeed
EncodeAndWrite(input, go_on) ==
    \/ /\ result' = Err("Failed to encode MP3")
       /\ pc' = "done"
       /\ UNCHANGED <<encoded, written>>
    \/ /\ encoded' = encoded \o input
       /\ \/ /\ result' = Err("Failed to write MP3 data")
             /\ pc' = "done"
             /\ UNCHANGED written
          \/ /\ written' = Append(written, "encoded")
             /\ pc' = go_on
             /\ UNCHANGED result

\* convert_to_mp3: the packet decodes and all of it is encoded
ConvertDecoded ==
    /\ op = "convert" /\ Converting /\ n_read < MaxPackets
    /\ n_read' = n_read + 1
    /\ ev' = "decoded"
    /\ \E frames \in ConvertFrames :
          /\ src_pos' = src_pos + frames
          /\ decoded' = decoded \o PacketSamples(src_pos, frames, channels)
          /\ EncodeAndWrite(PacketSamples(src_pos, frames, channels), "loop")
    /\ UNCHANGED <<dlVars, inVars, loadVars, start_sample, end_sample, current_sample, flushes,
                   out_created, decode_failed>>

\* the start offset counted in frames, not in interleaved samples
TrimStartInFrames(packet_start, ch) ==
    IF packet_start < start_sample THEN start_sample - packet_start ELSE 0

\* `if packet_start < start_sample { (start_sample - packet_start) * channels } else { 0 }`
TrimStart(packet_start, ch) ==
    IF packet_start < start_sample THEN (start_sample - packet_start) * ch ELSE 0

\* `if packet_end > end_sample { samples.len() - (packet_end - end_sample) * channels }`
TrimEnd(packet_end, len, ch) ==
    IF packet_end > end_sample THEN len - (packet_end - end_sample) * ch ELSE len

\* the loop left one frame before the counter reaches end_sample
AfterPacketEarly(packet_end) == IF packet_end + 1 >= end_sample THEN "flush" ELSE "loop"

\* the loop left at the end of the stream only
AfterPacketNoBreak(packet_end) == "loop"

\* `if current_sample >= end_sample { break; }`
AfterPacket(packet_end) == IF packet_end >= end_sample THEN "flush" ELSE "loop"

\* convert_to_mp3_trimmed without `if trim_start < trim_end`
TrimDecodedUnguarded ==
    /\ op = "trim" /\ Converting /\ n_read < MaxPackets
    /\ n_read' = n_read + 1
    /\ ev' = "decoded"
    /\ \E frames \in ConvertFrames :
          LET packet_samples == PacketSamples(src_pos, frames, channels)
              num_frames == Len(packet_samples) \div channels
              packet_start == current_sample
              packet_end == current_sample + num_frames
              trim_start == TrimStart(packet_start, channels)
              trim_end == TrimEnd(packet_end, Len(packet_samples), channels)
          IN  /\ src_pos' = src_pos + frames
              /\ decoded' = decoded \o packet_samples
              /\ IF /\ packet_end > start_sample
                    /\ packet_start < end_sample
                 THEN /\ EncodeAndWrite(SubSeq(packet_samples, trim_start + 1, trim_end),
                                        AfterPacket(packet_end))
                      /\ current_sample' =
                            IF pc' = "done" THEN current_sample ELSE packet_end
                 ELSE /\ current_sample' = packet_end
                      /\ pc' = AfterPacket(packet_end)
                      /\ UNCHANGED <<encoded, written, result>>
    /\ UNCHANGED <<dlVars, inVars, loadVars, start_sample, end_sample, flushes, out_created,
                   decode_failed>>

\* convert_to_mp3_trimmed: the packet decodes and its part in the range is encoded
TrimDecoded ==
    /\ op = "trim" /\ Converting /\ n_read < MaxPackets
    /\ n_read' = n_read + 1
    /\ ev' = "decoded"
    /\ \E frames \in ConvertFrames :
          LET packet_samples == PacketSamples(src_pos, frames, channels)
              num_frames == Len(packet_samples) \div channels
              packet_start == current_sample
              packet_end == current_sample + num_frames
              trim_start == TrimStart(packet_start, channels)
              trim_end == TrimEnd(packet_end, Len(packet_samples), channels)
          IN  /\ src_pos' = src_pos + frames
              /\ decoded' = decoded \o packet_samples
              /\ IF /\ packet_end > start_sample
                    /\ packet_start < end_sample
                    /\ trim_start < trim_end
                 THEN /\ EncodeAndWrite(SubSeq(packet_samples, trim_start + 1, trim_end),
                                        AfterPacket(packet_end))
                      /\ current_sample' =
                            IF pc' = "done" THEN current_sample ELSE packet_end
                 ELSE /\ current_sample' = packet_end
                      /\ pc' = AfterPacket(packet_end)
                      /\ UNCHANGED <<encoded, written, result>>
    /\ UNCHANGED <<dlVars, inVars, loadVars, start_sample, end_sample, flushes, out_created,
                   decode_failed>>

\* the flush whose bytes are never written to the output
ConvFlushDropped ==
    /\ op \in {"convert", "trim"} /\ pc = "flush"
    /\ pc' = "done"
    /\ flushes' = flushes + 1
    /\ result' = Ok(<<>>)
    /\ UNCHANGED <<dlVars, inVars, n_read, ev, loadVars, start_sample, end_sample, current_sample,
                   encoded, written, out_created, src_pos, decode_failed, decoded>>

\* mp3_encoder.flush() and the last write_all, either of which may fail; Ok(())
ConvFlush ==
    /\ op \in {"convert", "trim"} /\ pc = "flush"
    /\ pc' = "done"
    /\ \/ /\ result' = Err("Failed to flush MP3 encoder")
          /\ UNCHANGED <<flushes, written>>
       \/ /\ flushes' = flushes + 1
          /\ \/ /\ result' = Err("Failed to write final MP3 data")
                /\ UNCHANGED written
             \/ /\ written' = Append(written, "flushed")
                /\ result' = Ok(<<>>)
    /\ UNCHANGED <<dlVars, inVars, n_read, ev, loadVars, start_sample, end_sample, current_sample,
                   encoded, out_created, src_pos, decode_failed, decoded>>

\* ---- the download commands ----

\* DownloadError's Display
NetworkError(msg) == "Network error: " \o msg \o ". Check your internet connection."
InvalidUrl(msg) == "Invalid URL: " \o msg \o ". Make sure the URL is from a supported site."
FileError(msg) == "File error: " \o msg \o ". Check disk space and permissions."
ConversionError(msg) == "Conversion error: " \o msg \o ". The audio format may not be supported."
Cancelled == "Download cancelled."
Unknown(msg) == "Error: " \o msg

\* DownloadResult { success: true, path: final_path }
DownloadResult == Ok([success |-> TRUE, path |-> "final_path"])

\* download commands one behaviour starts, all for the same artist, title, time
\* range and output directory
MaxDownloads == 2

\* the commands that transcode with the converter `o`
DownloadKinds(o) ==
    IF o = "convert" THEN {"download_audio", "download_audio_internal"}
    ELSE {"download_audio_trimmed"}

\* cancel_download has not run since the download started
NotCancelled == [at |-> "none", pc |-> "none", n_read |-> 0]

\* is_cancelled()
is_cancelled == CANCEL_DOWNLOAD

\* cancel_download, from the interface, at any moment
CancelDownload ==
    /\ dl # "none"
    /\ CANCEL_DOWNLOAD' = TRUE
    /\ cancel_at' = [at |-> dl_pc, pc |-> pc, n_read |-> n_read]
    /\ UNCHANGED <<inVars, pc, n_read, ev, result, loadVars, convVars, dl, dl_pc, dl_result,
                   n_downloads, final_file, temp_file, history>>

\* the command is entered: download_audio and download_audio_trimmed store false
\* in the flag first, download_audio_internal leaves it
DlStart ==
    /\ dl_pc \in {"idle", "done"}
    /\ n_downloads < MaxDownloads
    /\ \E kind \in DownloadKinds(op) :
         /\ dl' = kind
         /\ CANCEL_DOWNLOAD' = IF kind = "download_audio_internal" THEN CANCEL_DOWNLOAD
                                ELSE FALSE
    /\ dl_pc' = "exists"
    /\ dl_result' = None
    /\ n_downloads' = n_downloads + 1
    /\ cancel_at' = NotCancelled
    /\ UNCHANGED <<inVars, pc, n_read, ev, result, loadVars, convVars, final_file, temp_file,
                   history>>

\* the check of final_path taken after the first `if is_cancelled()`
DlExistsAfterCancel ==
    /\ dl_pc = "exists"
    /\ IF is_cancelled
       THEN dl_result' = Err(Cancelled) /\ dl_pc' = "done"
       ELSE IF final_file # "absent"
       THEN dl_result' = DownloadResult /\ dl_pc' = "done"
       ELSE dl_pc' = "download" /\ UNCHANGED dl_result
    /\ UNCHANGED <<inVars, pc, n_read, ev, result, loadVars, convVars, CANCEL_DOWNLOAD, dl,
                   n_downloads, final_file, temp_file, history, cancel_at>>

\* `if final_path.exists() { return Ok(..) }`
DlExists ==
    /\ dl_pc = "exists"
    /\ IF final_file # "absent"
       THEN dl_result' = DownloadResult /\ dl_pc' = "done"
       ELSE dl_pc' = "check1" /\ UNCHANGED dl_result
    /\ UNCHANGED <<inVars, pc, n_read, ev, result, loadVars, convVars, CANCEL_DOWNLOAD, dl,
                   n_downloads, final_file, temp_file, history, cancel_at>>

\* the first `if is_cancelled()`, before the download
DlCheck1 ==
    /\ dl_pc = "check1"
    /\ IF is_cancelled
       THEN dl_result' = Err(Cancelled) /\ dl_pc' = "done"
       ELSE dl_pc' = "download" /\ UNCHANGED dl_result
    /\ UNCHANGED <<inVars, pc, n_read, ev, result, loadVars, convVars, CANCEL_DOWNLOAD, dl,
                   n_downloads, final_file, temp_file, history, cancel_at>>

\* ytdlp_download(url, temp_path) and the mapping of its failure
DlDownload ==
    /\ dl_pc = "download"
    /\ \/ /\ \E e \in {InvalidUrl("Unsupported URL"), NetworkError("connection reset"),
                        Unknown("yt-dlp failed")} : dl_result' = Err(e)
          /\ dl_pc' = "done"
          /\ UNCHANGED temp_file
       \/ /\ temp_file' = TRUE
          /\ dl_pc' = "check2"
          /\ UNCHANGED dl_result
    /\ UNCHANGED <<inVars, pc, n_read, ev, result, loadVars, convVars, CANCEL_DOWNLOAD, dl,
                   n_downloads, final_file, history, cancel_at>>

\* the second `if is_cancelled()`, which removes the temporary file, and the
\* search for the downloaded file
DlCheck2 ==
    /\ dl_pc = "check2"
    /\ IF is_cancelled
       THEN /\ temp_file' = FALSE
            /\ dl_result' = Err(Cancelled)
            /\ dl_pc' = "done"
       ELSE \/ /\ dl_result' = Err(FileError("Downloaded file not found"))
               /\ dl_pc' = "done"
               /\ UNCHANGED temp_file
            \/ /\ dl_pc' = IF dl = "download_audio" THEN "check3" ELSE "convert"
               /\ UNCHANGED <<dl_result, temp_file>>
    /\ UNCHANGED <<inVars, pc, n_read, ev, result, loadVars, convVars, CANCEL_DOWNLOAD, dl,
                   n_downloads, final_file, history, cancel_at>>

\* the third `if is_cancelled()`, in download_audio alone
DlCheck3 ==
    /\ dl = "download_audio" /\ dl_pc = "check3"
    /\ IF is_cancelled
       THEN /\ temp_file' = FALSE
            /\ dl_result' = Err(Cancelled)
            /\ dl_pc' = "done"
       ELSE /\ dl_pc' = "convert"
            /\ UNCHANGED <<dl_result, temp_file>>
    /\ UNCHANGED <<inVars, pc, n_read, ev, result, loadVars, convVars, CANCEL_DOWNLOAD, dl,
                   n_downloads, final_file, history, cancel_at>>

\* convert_to_mp3 or convert_to_mp3_trimmed is called
DlConvertCall ==
    /\ dl_pc = "convert"
    /\ dl_pc' = "converting"
    /\ pc' = "open"
    /\ n_read' = 0
    /\ ev' = "none"
    /\ result' = None
    /\ start_sample' = 0
    /\ end_sample' = 0
    /\ current_sample' = 0
    /\ encoded' = <<>>
    /\ flushes' = 0
    /\ written' = <<>>
    /\ out_created' = FALSE
    /\ src_pos' = 0
    /\ decode_failed' = FALSE
    /\ decoded' = <<>>
    /\ UNCHANGED <<inVars, loadVars, CANCEL_DOWNLOAD, dl, dl_result, n_downloads, final_file,
                   temp_file, history, cancel_at>>

\* the converter has returned: `.map_err(|e| ConversionError(e).to_string())?`.
\* What File::create made stays at final_path whatever the converter returns.
DlConvertReturn ==
    /\ dl_pc = "converting" /\ pc = "done"
    /\ final_file' = IF ~out_created THEN final_file
                     ELSE IF IsOk(result) THEN "complete" ELSE "partial"
    /\ IF IsOk(result)
       THEN dl_pc' = "tag" /\ UNCHANGED dl_result
       ELSE dl_result' = Err(ConversionError(result.err)) /\ dl_pc' = "done"
    /\ UNCHANGED <<inVars, pc, n_read, ev, result, loadVars, convVars, CANCEL_DOWNLOAD, dl,
                   n_downloads, temp_file, history, cancel_at>>

\* tag.write_to_path, remove_file(temp), db::save_download (its failure is only
\* logged), Ok
DlTag ==
    /\ dl_pc = "tag"
    /\ dl_pc' = "done"
    /\ \/ /\ dl_result' = Err(FileError("Failed to write ID3 tags"))
          /\ UNCHANGED <<final_file, temp_file, history>>
       \/ /\ final_file' = "tagged"
          /\ temp_file' = FALSE
          /\ history' \in {history, history + 1}
          /\ dl_result' = DownloadResult
    /\ UNCHANGED <<inVars, pc, n_read, ev, result, loadVars, convVars, CANCEL_DOWNLOAD, dl,
                   n_downloads, cancel_at>>

\* ---- a download_audio or download_audio_trimmed call for another title, ----
\* ---- in a task of its own: it shares CANCEL_DOWNLOAD and the history     ----
NoOther == [kind |-> "none", pc |-> "idle", result |-> None]

\* the command is entered: CANCEL_DOWNLOAD.store(false)
OtherStart ==
    /\ other.pc = "idle"
    /\ dl # "none"
    /\ n_downloads < MaxDownloads
    /\ n_downloads' = n_downloads + 1
    /\ CANCEL_DOWNLOAD' = FALSE
    /\ \E kind \in {"download_audio", "download_audio_trimmed"} :
          other' = [kind |-> kind, pc |-> "exists", result |-> None]
    /\ UNCHANGED <<argVars, queueVars, pc, n_read, ev, result, loadVars, convVars, dl, dl_pc, dl_result,
                   final_file, temp_file, history, cancel_at>>

\* its `if final_path.exists()`, for a file of its own
OtherExists ==
    /\ other.pc = "exists"
    /\ \/ other' = [other EXCEPT !.pc = "done", !.result = DownloadResult]
       \/ other' = [other EXCEPT !.pc = "check1"]
    /\ UNCHANGED <<argVars, queueVars, pc, n_read, ev, result, loadVars, convVars, dlVars>>

\* the check that follows the check `at`
NextCheck(kind, at) ==
    CASE at = "check1" -> "check2"
      [] at = "check2" -> IF kind = "download_audio" THEN "check3" ELSE "convert"
      [] at = "check3" -> "convert"

\* one of its `if is_cancelled()`; ytdlp_download runs between the first and
\* the second and may fail
OtherCheck ==
    /\ other.pc \in {"check1", "check2", "check3"}
    /\ IF is_cancelled
       THEN other' = [other EXCEPT !.pc = "done", !.result = Err(Cancelled)]
       ELSE \/ /\ other.pc = "check1"
               /\ other' = [other EXCEPT !.pc = "done",
                                          !.result = Err(NetworkError("connection reset"))]
            \/ other' = [other EXCEPT !.pc = NextCheck(other.kind, other.pc)]
    /\ UNCHANGED <<argVars, queueVars, pc, n_read, ev, result, loadVars, convVars, dlVars>>

\* its conversion, tag write and db::save_download
OtherConvert ==
    /\ other.pc = "convert"
    /\ \/ /\ other' = [other EXCEPT !.pc = "done",
                                      !.result = Err(ConversionError("Failed to decode"))]
          /\ UNCHANGED history
       \/ /\ other' = [other EXCEPT !.pc = "done", !.result = DownloadResult]
          /\ history' \in {history, history + 1}
    /\ UNCHANGED <<argVars, queueVars, pc, n_read, ev, result, loadVars, convVars, CANCEL_DOWNLOAD, dl,
                   dl_pc, dl_result, n_downloads, final_file, temp_file, cancel_at>>

\* ---- the download queue ----

\* items added in one behaviour
MaxItems == 1

\* add_to_queue's QueueItem (title stands for title and artist, set together)
NewItem ==
    [status |-> "Pending", progress |-> 0, error |-> None, output_path |-> None,
     title |-> None]

\* orphaned is not in the code: the item left the queue while the call had
\* updates of it still to make
NoCall == [pc |-> "idle", id |-> 0, has_metadata |-> FALSE, download |-> None,
           result |-> None, orphaned |-> FALSE]

\* update_queue_item_status that inserts the item when the id is missing
update_queue_item_status_or_insert(queue, id, status, progress, error, output_path) ==
    [i \in DOMAIN queue \cup {id} |->
        IF i # id THEN queue[i]
        ELSE [(IF id \in DOMAIN queue THEN queue[id] ELSE NewItem)
                 EXCEPT !.status = status, !.progress = progress, !.error = error,
                        !.output_path = IF output_path.some THEN output_path ELSE @]]

\* update_queue_item_status: `if let Some(item) = queue.get_mut(id) { .. }`
update_queue_item_status(queue, id, status, progress, error, output_path) ==
    IF id \in DOMAIN queue
    THEN [queue EXCEPT ![id] =
             [@ EXCEPT !.status = status, !.progress = progress, !.error = error,
                       !.output_path = IF output_path.some THEN output_path ELSE @]]
    ELSE queue

\* update_queue_item_metadata
update_queue_item_metadata(queue, id, title) ==
    IF id \in DOMAIN queue
    THEN [queue EXCEPT ![id] = [@ EXCEPT !.title = Some(title), !.status = "Ready"]]
    ELSE queue

\* the Err arm of `match result` left without its update
FinishOkOnly(queue, id, r) ==
    IF IsOk(r)
    THEN update_queue_item_status(queue, id, "Complete", 100, None, Some(r.v.path))
    ELSE queue

\* `match result` of process_queue_item: the update of either arm
Finish(queue, id, r) ==
    IF IsOk(r)
    THEN update_queue_item_status(queue, id, "Complete", 100, None, Some(r.v.path))
    ELSE update_queue_item_status(queue, id, "Failed", 0, Some(r.err), None)

\* the call c moves on, the other calls stay
CallStep(c, new) == calls' = [calls EXCEPT ![c] = new]

\* the tasks that run process_queue_item, one call each
Calls == {"first", "second"}

\* the calls once the queue has become `queue`: those whose item has just left
\* it before their last update note it
NoteRemoved(queue) ==
    [c \in Calls |->
        IF /\ calls[c].id \in DOMAIN DOWNLOAD_QUEUE /\ calls[c].id \notin DOMAIN queue
           /\ calls[c].pc \notin {"idle", "return", "done"}
        THEN [calls[c] EXCEPT !.orphaned = TRUE]
        ELSE calls[c]]

\* add_to_queue: a fresh id (a new UUID), status Pending
add_to_queue ==
    /\ op = "queue"
    /\ n_added < MaxItems
    /\ n_added' = n_added + 1
    /\ DOWNLOAD_QUEUE' =
          [i \in DOMAIN DOWNLOAD_QUEUE \cup {n_added + 1} |->
              IF i = n_added + 1 THEN NewItem ELSE DOWNLOAD_QUEUE[i]]
    /\ UNCHANGED <<argVars, other, calls, pc, n_read, ev, result, loadVars, convVars, dlVars>>

\* remove_from_queue(id), for any id
remove_from_queue ==
    /\ op = "queue"
    /\ \E id \in 1..MaxItems :
          DOWNLOAD_QUEUE' = [i \in DOMAIN DOWNLOAD_QUEUE \ {id} |-> DOWNLOAD_QUEUE[i]]
    /\ calls' = NoteRemoved(DOWNLOAD_QUEUE')
    /\ UNCHANGED <<argVars, other, n_added, pc, n_read, ev, result, loadVars, convVars,
                   dlVars>>

\* clear_completed: retain what is neither Complete nor Failed
clear_completed ==
    /\ op = "queue"
    /\ DOWNLOAD_QUEUE' =
          [i \in {j \in DOMAIN DOWNLOAD_QUEUE :
                     DOWNLOAD_QUEUE[j].status \notin {"Complete", "Failed"}}
              |-> DOWNLOAD_QUEUE[i]]
    /\ calls' = NoteRemoved(DOWNLOAD_QUEUE')
    /\ UNCHANGED <<argVars, other, n_added, pc, n_read, ev, result, loadVars, convVars,
                   dlVars>>

\* cancel_download while the queue is processed
CancelQueued ==
    /\ op = "queue"
    /\ \E c \in Calls : calls[c].pc \notin {"idle", "done"}
    /\ CANCEL_DOWNLOAD' = TRUE
    /\ UNCHANGED <<argVars, other, queueVars, pc, n_read, ev, result, loadVars, convVars,
                   dl, dl_pc, dl_result, n_downloads, final_file, temp_file, history,
                   cancel_at>>

\* what the steps of process_queue_item leave alone
QueueFrame ==
    UNCHANGED <<argVars, other, n_added, pc, n_read, ev, result, loadVars, convVars,
                CANCEL_DOWNLOAD, dl, dl_pc, dl_result, n_downloads, final_file, temp_file,
                cancel_at>>

\* process_queue_item(id) is entered: `queue.get(&id).cloned().ok_or(..)?`
ProcessGet ==
    /\ op = "queue"
    /\ \E c \in Calls, id \in 1..MaxItems :
          /\ calls[c].pc = "idle"
          /\ IF id \in DOMAIN DOWNLOAD_QUEUE
             THEN CallStep(c, [calls[c] EXCEPT
                                 !.pc = "fetching", !.id = id,
                                 !.has_metadata = DOWNLOAD_QUEUE[id].title.some])
             ELSE CallStep(c, [calls[c] EXCEPT
                                 !.pc = "done", !.id = id,
                                 !.result = Err("Item not found in queue")])
    /\ UNCHANGED <<DOWNLOAD_QUEUE, history>>
    /\ QueueFrame

\* update_queue_item_status(&id, Fetching, 0, None, None)
ProcessFetching ==
    /\ \E c \in Calls :
          /\ calls[c].pc = "fetching"
          /\ DOWNLOAD_QUEUE' =
                update_queue_item_status(DOWNLOAD_QUEUE, calls[c].id, "Fetching", 0, None, None)
          /\ CallStep(c, [calls[c] EXCEPT !.pc = "metadata"])
    /\ UNCHANGED history
    /\ QueueFrame

\* the metadata: taken from the item, or fetched by ytdlp_extract_info, whose
\* failure marks the item Failed and is returned
ProcessMetadata ==
    /\ \E c \in Calls :
          /\ calls[c].pc = "metadata"
          /\ IF calls[c].has_metadata
             THEN /\ CallStep(c, [calls[c] EXCEPT !.pc = "downloading"])
                  /\ UNCHANGED DOWNLOAD_QUEUE
             ELSE \/ /\ DOWNLOAD_QUEUE' =
                           update_queue_item_status(DOWNLOAD_QUEUE, calls[c].id, "Failed", 0,
                                                    Some("yt-dlp failed"), None)
                     /\ CallStep(c, [calls[c] EXCEPT !.pc = "return",
                                                     !.result = Err("yt-dlp failed")])
                  \/ /\ DOWNLOAD_QUEUE' =
                           update_queue_item_metadata(DOWNLOAD_QUEUE, calls[c].id, "title")
                     /\ CallStep(c, [calls[c] EXCEPT !.pc = "downloading"])
    /\ UNCHANGED history
    /\ QueueFrame

\* update_queue_item_status(&id, Downloading, 10, None, None)
ProcessDownloading ==
    /\ \E c \in Calls :
          /\ calls[c].pc = "downloading"
          /\ DOWNLOAD_QUEUE' =
                update_queue_item_status(DOWNLOAD_QUEUE, calls[c].id, "Downloading", 10,
                                         None, None)
          /\ CallStep(c, [calls[c] EXCEPT !.pc = "exists"])
    /\ UNCHANGED history
    /\ QueueFrame

\* download_audio_internal: `if final_path.exists()`, then `if is_cancelled()`,
\* then the update to 20
InternalStart ==
    /\ \E c \in Calls :
          /\ calls[c].pc = "exists"
          /\ \/ /\ CallStep(c, [calls[c] EXCEPT !.pc = "finish",
                                                  !.download = Some(DownloadResult)])
                /\ UNCHANGED DOWNLOAD_QUEUE
             \/ IF is_cancelled
                THEN /\ CallStep(c, [calls[c] EXCEPT !.pc = "finish",
                                                     !.download = Some(Err(Cancelled))])
                     /\ UNCHANGED DOWNLOAD_QUEUE
                ELSE /\ DOWNLOAD_QUEUE' =
                           update_queue_item_status(DOWNLOAD_QUEUE, calls[c].id,
                                                    "Downloading", 20, None, None)
                     /\ CallStep(c, [calls[c] EXCEPT !.pc = "download"])
    /\ UNCHANGED history
    /\ QueueFrame

\* ytdlp_download and the update to 60
InternalDownload ==
    /\ \E c \in Calls :
          /\ calls[c].pc = "download"
          /\ \/ /\ CallStep(c, [calls[c] EXCEPT
                                    !.pc = "finish",
                                    !.download = Some(Err(NetworkError("connection reset")))])
                /\ UNCHANGED DOWNLOAD_QUEUE
             \/ /\ DOWNLOAD_QUEUE' =
                      update_queue_item_status(DOWNLOAD_QUEUE, calls[c].id,
                                               "Downloading", 60, None, None)
                /\ CallStep(c, [calls[c] EXCEPT !.pc = "check2"])
    /\ UNCHANGED history
    /\ QueueFrame

\* the second `if is_cancelled()`, the search for the file, the update to 65
InternalCheck2 ==
    /\ \E c \in Calls :
          /\ calls[c].pc = "check2"
          /\ IF is_cancelled
             THEN /\ CallStep(c, [calls[c] EXCEPT !.pc = "finish",
                                                  !.download = Some(Err(Cancelled))])
                  /\ UNCHANGED DOWNLOAD_QUEUE
             ELSE \/ /\ CallStep(c, [calls[c] EXCEPT
                                        !.pc = "finish",
                                        !.download =
                                           Some(Err(FileError("Downloaded file not found")))])
                     /\ UNCHANGED DOWNLOAD_QUEUE
                  \/ /\ DOWNLOAD_QUEUE' =
                           update_queue_item_status(DOWNLOAD_QUEUE, calls[c].id,
                                                    "Downloading", 65, None, None)
                     /\ CallStep(c, [calls[c] EXCEPT !.pc = "convert"])
    /\ UNCHANGED history
    /\ QueueFrame

\* convert_to_mp3 and the update to 90
InternalConvert ==
    /\ \E c \in Calls :
          /\ calls[c].pc = "convert"
          /\ \/ /\ CallStep(c, [calls[c] EXCEPT
                                    !.pc = "finish",
                                    !.download =
                                       Some(Err(ConversionError("Failed to decode")))])
                /\ UNCHANGED DOWNLOAD_QUEUE
             \/ /\ DOWNLOAD_QUEUE' =
                      update_queue_item_status(DOWNLOAD_QUEUE, calls[c].id,
                                               "Downloading", 90, None, None)
                /\ CallStep(c, [calls[c] EXCEPT !.pc = "tag"])
    /\ UNCHANGED history
    /\ QueueFrame

\* the tag write, db::save_download (its failure is only logged), Ok
InternalTag ==
    /\ \E c \in Calls :
          /\ calls[c].pc = "tag"
          /\ \/ /\ CallStep(c, [calls[c] EXCEPT
                                    !.pc = "finish",
                                    !.download =
                                       Some(Err(FileError("Failed to write ID3 tags")))])
                /\ UNCHANGED history
             \/ /\ CallStep(c, [calls[c] EXCEPT !.pc = "finish",
                                                 !.download = Some(DownloadResult)])
                /\ history' \in {history, history + 1}
    /\ UNCHANGED DOWNLOAD_QUEUE
    /\ QueueFrame

\* `match result`: the last update of the item
ProcessFinish ==
    /\ \E c \in Calls :
          /\ calls[c].pc = "finish"
          /\ DOWNLOAD_QUEUE' = Finish(DOWNLOAD_QUEUE, calls[c].id, calls[c].download.v)
          /\ CallStep(c, [calls[c] EXCEPT !.pc = "return", !.result = calls[c].download.v])
    /\ UNCHANGED history
    /\ QueueFrame

\* the events are emitted and the call returns
ProcessReturn ==
    /\ \E c \in Calls :
          /\ calls[c].pc = "return"
          /\ CallStep(c, [calls[c] EXCEPT !.pc = "done"])
    /\ UNCHANGED <<DOWNLOAD_QUEUE, history>>
    /\ QueueFrame

\* no download command has run: the flag is false, as the static is initialised,
\* and the queue is empty
NoDownload ==
    /\ DOWNLOAD_QUEUE = <<>>
    /\ n_added = 0
    /\ calls = [c \in Calls |-> NoCall]
    /\ other = NoOther
    /\ CANCEL_DOWNLOAD = FALSE
    /\ dl = "none"
    /\ dl_pc = "idle"
    /\ dl_result = None
    /\ n_downloads = 0
    /\ final_file = "absent"
    /\ temp_file = FALSE
    /\ history = 0
    /\ cancel_at = NotCancelled

\* what every operation starts from, called on its own
Fresh ==
    /\ NoDownload
    /\ pc = "open"
    /\ n_read = 0
    /\ ev = "none"
    /\ samples = <<>>
    /\ bpm_out = None
    /\ result = None
    /\ start_sample = 0
    /\ end_sample = 0
    /\ current_sample = 0
    /\ encoded = <<>>
    /\ flushes = 0
    /\ written = <<>>
    /\ out_created = FALSE
    /\ src_pos = 0
    /\ decode_failed = FALSE
    /\ decoded = <<>>

InitAnalyze ==
    /\ op = "analyze"
    /\ \E f \in AnalyzeFiles : sample_rate = f.rate /\ channels = f.channels
    /\ arg = None
    /\ num_points = 0
    /\ start_time = 0
    /\ end_time = 0
    /\ Fresh

MaxPoints == 4

InitWaveform ==
    /\ op = "waveform"
    /\ \E f \in WaveformFiles : sample_rate = f.rate /\ channels = f.channels
    /\ arg = None
    /\ num_points \in 0..MaxPoints
    /\ start_time = 0
    /\ end_time = 0
    /\ Fresh

NextAnalyze ==
    \/ LoadOpen
    \/ LoadCap
    \/ LoadEnd
    \/ LoadOtherTrack
    \/ LoadDecodeFail
    \/ LoadDecoded
    \/ AnalyzeBpm
    \/ AnalyzeKey

SpecAnalyze == InitAnalyze /\ [][NextAnalyze]_vars

NextWaveform ==
    \/ LoadOpen
    \/ LoadEnd
    \/ LoadOtherTrack
    \/ LoadDecodeFail
    \/ LoadDecoded
    \/ GenerateWaveform

SpecWaveform == InitWaveform /\ [][NextWaveform]_vars

InitConvert ==
    /\ op = "convert"
    /\ \E f \in ConvertFiles : sample_rate = f.rate /\ channels = f.channels
    /\ arg = None
    /\ num_points = 0
    /\ start_time = 0
    /\ end_time = 0
    /\ Fresh

InitTrim ==
    /\ op = "trim"
    /\ \E f \in ConvertFiles : sample_rate = f.rate /\ channels = f.channels
    /\ arg = None
    /\ num_points = 0
    /\ start_time \in TrimTimes
    /\ end_time \in TrimTimes
    /\ Fresh

NextTrim ==
    \/ ConvOpen
    \/ ConvEof
    \/ ConvReadError
    \/ ConvOtherTrack
    \/ ConvDecodeFail
    \/ TrimDecoded
    \/ ConvFlush

SpecTrim == InitTrim /\ [][NextTrim]_vars

\* the application has started and no command has been called yet; the file to
\* fetch has one or two channels, the trimmed command a range inside it or past it
InitDownload ==
    /\ op \in {"convert", "trim"}
    /\ \E f \in ConvertFiles : sample_rate = f.rate /\ channels = f.channels
    /\ arg = None
    /\ num_points = 0
    /\ start_time = IF op = "trim" THEN 1 ELSE 0
    /\ end_time \in IF op = "trim" THEN {3, MaxTime} ELSE {0}
    /\ NoDownload
    /\ pc = "idle"
    /\ n_read = 0
    /\ ev = "none"
    /\ samples = <<>>
    /\ bpm_out = None
    /\ result = None
    /\ start_sample = 0
    /\ end_sample = 0
    /\ current_sample = 0
    /\ encoded = <<>>
    /\ flushes = 0
    /\ written = <<>>
    /\ out_created = FALSE
    /\ src_pos = 0
    /\ decode_failed = FALSE
    /\ decoded = <<>>

NextDownload ==
    \/ CancelDownload
    \/ DlStart
    \/ DlExists
    \/ DlCheck1
    \/ DlDownload
    \/ DlCheck2
    \/ DlCheck3
    \/ DlConvertCall
    \/ ConvOpen
    \/ ConvEof
    \/ ConvReadError
    \/ ConvOtherTrack
    \/ ConvDecodeFail
    \/ ConvertDecoded
    \/ TrimDecoded
    \/ ConvFlush
    \/ DlConvertReturn
    \/ DlTag

SpecDownload == InitDownload /\ [][NextDownload]_vars

\* the download commands with a second command in a task of its own
NextConcurrent ==
    \/ NextDownload
    \/ OtherStart
    \/ OtherExists
    \/ OtherCheck
    \/ OtherConvert

\* a download of a mono file, and the other command beside it
InitConcurrent ==
    /\ InitDownload
    /\ channels = 1
    /\ op = "trim" => end_time = 3

SpecConcurrent == InitConcurrent /\ [][NextConcurrent]_vars

(***************************************************************************)
(* f64 arithmetic, for pearson_correlation on its own.  A finite f64 is    *)
(* sign * m * 2^e with m below 2^53; m is a natural number written as a    *)
(* sequence of 14-bit limbs, least significant first (<<>> is 0).  Every   *)
(* operation is the exact result rounded to 53 bits, ties to even, as IEEE *)
(* 754 has it; exponent overflow and underflow are out of reach of the     *)
(* values used.                                                            *)
(***************************************************************************)
MantissaBits == 53
LimbBits == 14
Limb == 2^LimbBits

LimbAt(a, i) == IF i <= Len(a) THEN a[i] ELSE 0

RECURSIVE NatTrim(_)
NatTrim(a) ==
    IF a # <<>> /\ a[Len(a)] = 0 THEN NatTrim(SubSeq(a, 1, Len(a) - 1)) ELSE a

RECURSIVE NatAddFrom(_, _, _, _)
NatAddFrom(a, b, i, carry) ==
    IF i > Len(a) /\ i > Len(b) THEN (IF carry = 0 THEN <<>> ELSE <<carry>>)
    ELSE <<(LimbAt(a, i) + LimbAt(b, i) + carry) % Limb>>
         \o NatAddFrom(a, b, i + 1, (LimbAt(a, i) + LimbAt(b, i) + carry) \div Limb)

NatAdd(a, b) == NatAddFrom(a, b, 1, 0)

RECURSIVE NatSubFrom(_, _, _, _)
NatSubFrom(a, b, i, borrow) ==
    IF i > Len(a) THEN <<>>
    ELSE IF LimbAt(a, i) - LimbAt(b, i) - borrow < 0
         THEN <<LimbAt(a, i) - LimbAt(b, i) - borrow + Limb>> \o NatSubFrom(a, b, i + 1, 1)
         ELSE <<LimbAt(a, i) - LimbAt(b, i) - borrow>> \o NatSubFrom(a, b, i + 1, 0)

\* a - b, for a >= b
NatSub(a, b) == NatTrim(NatSubFrom(a, b, 1, 0))

RECURSIVE NatCmpFrom(_, _, _)
NatCmpFrom(a, b, i) ==
    IF i = 0 THEN 0
    ELSE IF LimbAt(a, i) < LimbAt(b, i) THEN -1
    ELSE IF LimbAt(a, i) > LimbAt(b, i) THEN 1
    ELSE NatCmpFrom(a, b, i - 1)

\* -1, 0, 1 as a is below, equal to, above b
NatCmp(a, b) == NatCmpFrom(a, b, Max(Len(a), Len(b)))

RECURSIVE ColSum(_, _, _, _)
\* the sum of a[j] * b[k + 1 - j] over j >= i
ColSum(a, b, k, i) ==
    IF i > Len(a) \/ i > k THEN 0
    ELSE (IF k + 1 - i <= Len(b) THEN a[i] * b[k + 1 - i] ELSE 0) + ColSum(a, b, k, i + 1)

RECURSIVE NatMulFrom(_, _, _, _)
NatMulFrom(a, b, k, carry) ==
    IF k > Len(a) + Len(b) THEN <<>>
    ELSE <<(ColSum(a, b, k, 1) + carry) % Limb>>
         \o NatMulFrom(a, b, k + 1, (ColSum(a, b, k, 1) + carry) \div Limb)

\* a * b, for factors of at most four limbs
NatMul(a, b) == NatTrim(NatMulFrom(a, b, 1, 0))

RECURSIVE BitsOf(_)
BitsOf(n) == IF n = 0 THEN 0 ELSE 1 + BitsOf(n \div 2)

BitLen(a) == IF a = <<>> THEN 0 ELSE (Len(a) - 1) * LimbBits + BitsOf(a[Len(a)])

\* a * 2^k
NatShl(a, k) ==
    IF a = <<>> THEN <<>>
    ELSE AsSeq([i \in 1..(k \div LimbBits) |-> 0]) \o NatMul(a, <<2^(k % LimbBits)>>)

\* floor(a / 2^k)
NatShr(a, k) ==
    IF Len(a) <= k \div LimbBits THEN <<>>
    ELSE NatTrim(AsSeq([i \in 1..(Len(a) - (k \div LimbBits)) |->
            (a[(k \div LimbBits) + i] \div 2^(k % LimbBits))
            + (LimbAt(a, (k \div LimbBits) + i + 1) % 2^(k % LimbBits))
              * 2^(LimbBits - (k % LimbBits))]))

RECURSIVE NatDivFrom(_, _, _, _)
\* long division by d < Limb, from limb i down
NatDivFrom(a, d, i, rem) ==
    IF i = 0 THEN [q |-> <<>>, r |-> rem]
    ELSE LET rest == NatDivFrom(a, d, i - 1, (rem * Limb + a[i]) % d)
         IN  [q |-> Append(rest.q, (rem * Limb + a[i]) \div d), r |-> rest.r]

NatDivSmall(a, d) ==
    LET t == NatDivFrom(a, d, Len(a), 0) IN [q |-> NatTrim(t.q), r |-> t.r]

FZero == [sign |-> 1, m |-> <<>>, e |-> 0]
FIsZero(a) == a.m = <<>>

\* the f64 nearest to sign * (n + f) * 2^e where 0 <= f < 1 and f > 0 iff sticky
RoundNat(sign, n, e, sticky) ==
    LET k == BitLen(n) - MantissaBits
        q == NatShr(n, k)
        c == NatCmp(NatSub(n, NatShl(q, k)), NatShl(<<1>>, k - 1))
        up == c > 0 \/ (c = 0 /\ (sticky \/ q[1] % 2 = 1))
    IN  IF n = <<>> THEN FZero
        ELSE IF k <= 0 THEN [sign |-> sign, m |-> n, e |-> e]
        ELSE [sign |-> sign, m |-> IF up THEN NatAdd(q, <<1>>) ELSE q, e |-> e + k]

\* a * b
FMul(a, b) == RoundNat(a.sign * b.sign, NatMul(a.m, b.m), a.e + b.e, FALSE)

\* a + b
FAdd(a, b) ==
    IF FIsZero(a) THEN b
    ELSE IF FIsZero(b) THEN a
    ELSE LET e == Min(a.e, b.e)
             A == NatShl(a.m, a.e - e)
             B == NatShl(b.m, b.e - e)
             c == NatCmp(A, B)
         IN  IF a.sign = b.sign THEN RoundNat(a.sign, NatAdd(A, B), e, FALSE)
             ELSE IF c = 0 THEN FZero
             ELSE IF c > 0 THEN RoundNat(a.sign, NatSub(A, B), e, FALSE)
             ELSE RoundNat(b.sign, NatSub(B, A), e, FALSE)

\* a - b
FSub(a, b) == FAdd(a, [b EXCEPT !.sign = -b.sign])

\* `x.len() as f64`
FOfNat(n) == [sign |-> 1, m |-> NatTrim(<<n>>), e |-> 0]

\* the f64 of the decimal literal n / d: the nearest one
F64OfRatio(n, d) ==
    LET t == NatDivSmall(NatShl(NatTrim(<<n>>), 2 * MantissaBits), d)
    IN  RoundNat(1, t.q, -(2 * MantissaBits), t.r # 0)

RECURSIVE FSumFrom(_, _, _)
\* iter().sum(): the fold from 0.0, left to right, rounding at every step
FSumFrom(v, i, acc) ==
    IF i > Len(v) THEN acc
    ELSE CHOOSE r \in {FSumFrom(v, i + 1, a) : a \in {FAdd(acc, v[i])}} : TRUE

FSum(v) == FSumFrom(v, 1, FZero)

\* x.iter().zip(y.iter()).map(|(a, b)| a * b)
FProducts(x, y) == AsSeq([i \in 1..Min(Len(x), Len(y)) |-> FMul(x[i], y[i])])

\* what pearson_correlation returns: 0.0, NaN, or numerator / sqrt(radicand)
\* with radicand > 0, which is 0.0 exactly when the numerator is
FQuotient(numerator, radicand) ==
    IF FIsZero(radicand) THEN [nan |-> FALSE, num |-> FZero, radicand |-> radicand]
    ELSE IF radicand.sign < 0 THEN [nan |-> TRUE, num |-> numerator, radicand |-> radicand]
    ELSE [nan |-> FALSE, num |-> numerator, radicand |-> radicand]

\* the sums of pearson_correlation joined: `denominator == 0.0` holds exactly
\* when the radicand is 0.0; the square root of a negative radicand is NaN, for
\* which the comparison is false and the division gives NaN
PearsonOfF64Sums(n, sum_x, sum_y, sum_xy, sum_x2, sum_y2) ==
    FQuotient(FSub(FMul(n, sum_xy), FMul(sum_x, sum_y)),
              FMul(FSub(FMul(n, sum_x2), FMul(sum_x, sum_x)),
                   FSub(FMul(n, sum_y2), FMul(sum_y, sum_y))))

\* pearson_correlation(x, y) in f64
pearson_correlation_f64(x, y) ==
    CHOOSE r \in
        { PearsonOfF64Sums(FOfNat(Len(x)), sum_x, sum_y, sum_xy, sum_x2, sum_y2) :
            sum_x \in {FSum(x)}, sum_y \in {FSum(y)}, sum_xy \in {FSum(FProducts(x, y))},
            sum_x2 \in {FSum(FProducts(x, x))}, sum_y2 \in {FSum(FProducts(y, y))} } : TRUE

\* the entries of the constant vectors, as decimal literals n / d
PearsonConstants == {<<0, 1>>, <<1, 1>>, <<5, 2>>, <<1, 10>>, <<3, 10>>, <<1, 12>>,
                     <<1, 3>>, <<1, 1000>>}

\* the vectors pearson_correlation is called on: the constant ones, the two
\* profiles (written in hundredths above) and one more that is not constant
PearsonVectors ==
    {AsSeq([i \in 1..12 |-> F64OfRatio(c[1], c[2])]) : c \in PearsonConstants}
    \cup {AsSeq([i \in 1..12 |-> F64OfRatio(MAJOR_PROFILE[i], 100)]),
          AsSeq([i \in 1..12 |-> F64OfRatio(MINOR_PROFILE[i], 100)]),
          AsSeq([i \in 1..12 |-> F64OfRatio(i, 10)])}

InitPearson ==
    /\ op = "pearson_correlation"
    /\ sample_rate = ANALYSIS_RATE
    /\ channels = 1
    /\ num_points = 0
    /\ start_time = 0
    /\ end_time = 0
    /\ arg \in {[x |-> x, y |-> y] : x \in PearsonVectors, y \in PearsonVectors}
    /\ Fresh

Pearson ==
    /\ op = "pearson_correlation" /\ pc = "open"
    /\ result' = Ok(pearson_correlation_f64(arg.x, arg.y))
    /\ pc' = "done"
    /\ UNCHANGED <<dlVars, inVars, n_read, ev, loadVars, convVars>>

SpecPearson == InitPearson /\ [][Pearson]_vars

\* ---- detect_key after compute_chromagram, on a chromagram of choice ----

\* the profile `p` moved to root r: chroma[j] = p[(j - r) mod 12], indices from 0
ProfileAt(p, r) == AsSeq([j \in 1..12 |-> p[((j - 1 - r + 12) % 12) + 1]])

\* largest entry of a constant chromagram
MaxConst == 3

\* the chromagrams detect_key is run on: each profile at each root, the
\* constant vectors, and the vectors of Chromagrams
KeyChromagrams ==
    {ProfileAt(MAJOR_PROFILE, r) : r \in 0..11}
    \cup {ProfileAt(MINOR_PROFILE, r) : r \in 0..11}
    \cup {AsSeq([i \in 1..12 |-> c]) : c \in 0..MaxConst}
    \cup {AsSeq(c) : c \in Chromagrams}

\* a buffer just below, at and just above one second
InitKey ==
    /\ op = "detect_key"
    /\ sample_rate = ANALYSIS_RATE
    /\ channels = 1
    /\ num_points = 0
    /\ start_time = 0
    /\ end_time = 0
    /\ arg \in {[chromagram |-> c] : c \in KeyChromagrams}
    /\ NoDownload
    /\ pc = "key"
    /\ n_read = 0
    /\ ev = "none"
    /\ \E n \in {ANALYSIS_RATE - 1, ANALYSIS_RATE, ANALYSIS_RATE + 1} :
          samples = AsSeq([i \in 1..n |-> 0])
    /\ bpm_out = None
    /\ result = None
    /\ start_sample = 0
    /\ end_sample = 0
    /\ current_sample = 0
    /\ encoded = <<>>
    /\ flushes = 0
    /\ written = <<>>
    /\ out_created = FALSE
    /\ src_pos = 0
    /\ decode_failed = FALSE
    /\ decoded = <<>>

\* detect_key from the normalisation on, for the chromagram given
DetectKey ==
    /\ op = "detect_key" /\ pc = "key"
    /\ result' = detect_key(samples, sample_rate, arg.chromagram)
    /\ pc' = "done"
    /\ UNCHANGED <<dlVars, inVars, n_read, ev, loadVars, convVars>>

SpecKey == InitKey /\ [][DetectKey]_vars

\* ---- detect_bpm on a buffer of choice, sample by sample ----

\* sample rates with hop_size 2 and 3
FrameRates == {200, 300}
\* samples beyond two seconds
MaxExtra == 12

\* buffers from one sample short of two seconds to MaxExtra samples more
InitBpm ==
    /\ op = "detect_bpm"
    /\ sample_rate \in FrameRates
    /\ channels = 1
    /\ num_points = 0
    /\ start_time = 0
    /\ end_time = 0
    /\ arg = None
    /\ NoDownload
    /\ pc = "bpm"
    /\ n_read = 0
    /\ ev = "none"
    /\ \E n \in (2 * sample_rate - 1)..(2 * sample_rate + MaxExtra) :
       \E shape \in {"silent", "beat40"} :
          samples = Interleaved(n, shape, 1)
    /\ bpm_out = None
    /\ result = None
    /\ start_sample = 0
    /\ end_sample = 0
    /\ current_sample = 0
    /\ encoded = <<>>
    /\ flushes = 0
    /\ written = <<>>
    /\ out_created = FALSE
    /\ src_pos = 0
    /\ decode_failed = FALSE
    /\ decoded = <<>>

DetectBpm ==
    /\ op = "detect_bpm" /\ pc = "bpm"
    /\ result' = detect_bpm(samples, sample_rate)
    /\ pc' = "done"
    /\ UNCHANGED <<dlVars, inVars, n_read, ev, loadVars, convVars>>

SpecBpm == InitBpm /\ [][DetectBpm]_vars

\* ---- the file name of a trimmed clip ----

\* `{:.0}` of a time of t tenths of a second, t >= 0 and not a half: the
\* nearest integer, in decimal digits
FormatFixed0(t) == ToString((t + 5) \div 10)

\* format!("_{:.0}-{:.0}s", start_time, end_time)
time_suffix(start, end) == "_" \o FormatFixed0(start) \o "-" \o FormatFixed0(end) \o "s"

\* format!("{} - {}{}.mp3", safe_artist, safe_title, time_suffix), for one
\* artist and one title
final_filename(start, end) == "artist - title" \o time_suffix(start, end) \o ".mp3"

\* largest time, in tenths of a second
MaxTenths == 12
\* the times requested: tenths of a second that are not halves of a second
\* (whose `{:.0}` is the nearest integer whatever the rounding of ties)
ClipTimes == {t \in 0..MaxTenths : t % 10 # 5}

\* two download_audio_trimmed requests for the same artist and title
InitFilename ==
    /\ op = "final_filename"
    /\ sample_rate = 1
    /\ channels = 1
    /\ num_points = 0
    /\ start_time = 0
    /\ end_time = 0
    /\ arg \in {[first |-> [start_time |-> a, end_time |-> b],
                 second |-> [start_time |-> c, end_time |-> d]] :
                   a \in ClipTimes, b \in ClipTimes, c \in ClipTimes, d \in ClipTimes}
    /\ Fresh

\* lines 1235-1237 for each of the two requests
FinalFilenames ==
    /\ op = "final_filename" /\ pc = "open"
    /\ result' = Ok([first |-> final_filename(arg.first.start_time, arg.first.end_time),
                     second |-> final_filename(arg.second.start_time, arg.second.end_time)])
    /\ pc' = "done"
    /\ UNCHANGED <<dlVars, inVars, n_read, ev, loadVars, convVars>>

SpecFilename == InitFilename /\ [][FinalFilenames]_vars

\* ---- the queue commands, each in a task of its own ----
InitQueue ==
    /\ op = "queue"
    /\ sample_rate = 1
    /\ channels = 1
    /\ num_points = 0
    /\ start_time = 0
    /\ end_time = 0
    /\ arg = None
    /\ Fresh

NextQueue ==
    \/ add_to_queue
    \/ remove_from_queue
    \/ clear_completed
    \/ CancelQueued
    \/ ProcessGet
    \/ ProcessFetching
    \/ ProcessMetadata
    \/ ProcessDownloading
    \/ InternalStart
    \/ InternalDownload
    \/ InternalCheck2
    \/ InternalConvert
    \/ InternalTag
    \/ ProcessFinish
    \/ ProcessReturn

SpecQueue == InitQueue /\ [][NextQueue]_vars

Init ==
    \/ InitAnalyze
    \/ InitWaveform
    \/ InitConvert
    \/ InitTrim

Next ==
    \/ LoadOpen
    \/ LoadCap
    \/ LoadEnd
    \/ LoadOtherTrack
    \/ LoadDecodeFail
    \/ LoadDecoded
    \/ AnalyzeBpm
    \/ AnalyzeKey
    \/ GenerateWaveform
    \/ ConvOpen
    \/ ConvEof
    \/ ConvReadError
    \/ ConvOtherTrack
    \/ ConvDecodeFail
    \/ ConvertDecoded
    \/ TrimDecoded
    \/ ConvFlush

Spec == Init /\ [][Next]_vars

\* the steps up to the end of the decode loop
LoopStep ==
    \/ LoadOpen
    \/ LoadCap
    \/ LoadEnd
    \/ LoadOtherTrack
    \/ LoadDecodeFail
    \/ LoadDecoded
    \/ ConvOpen
    \/ ConvEof
    \/ ConvReadError
    \/ ConvOtherTrack
    \/ ConvDecodeFail
    \/ ConvertDecoded
    \/ TrimDecoded

\* the thread that runs an operation keeps running: the next step of the loop
\* is taken whenever there is one
FairSpec == Spec /\ WF_vars(LoopStep)

(***************************************************************************)
(* Properties of convert_to_mp3_trimmed.                                   *)
(***************************************************************************)
\* the samples of the frames first..(last - 1) of the selected track, interleaved
SourceSamples(first, last, ch) == [k \in 1..((last - first) * ch) |-> first * ch + k - 1]

\* C1: when start_sample < end_sample and no packet failed to decode, the loop
\* of convert_to_mp3_trimmed ends having handed to the encoder exactly the
\* frames start_sample..(min(end_sample, total frames) - 1) of the source, in
\* order and once each, none when start_sample is past the end: however the
\* frames were split into packets.  src_pos is the total once the stream ended,
\* and is at least end_sample when the loop stopped at end_sample.
C1_TrimmedFramesExact ==
    ( /\ op = "trim"
      /\ pc = "flush" \/ (pc = "done" /\ IsOk(result))
      /\ ~decode_failed
      /\ start_sample < end_sample )
    => encoded = SourceSamples(start_sample, Max(start_sample, Min(end_sample, src_pos)),
                               channels)

\* three packets of 1, 1 and 3 stereo frames trimmed to the frames 1..3: the
\* first packet is before the range, the last one is cut at its end
C1_Witness ==
    /\ op = "trim" /\ pc = "flush" /\ ~decode_failed
    /\ channels = 2 /\ start_sample = 1 /\ end_sample = 4
    /\ n_read = 3 /\ src_pos = 5
    /\ encoded = <<2, 3, 4, 5, 6, 7>>
    /\ Len(written) = 2

(***************************************************************************)
(* Properties of generate_waveform.                                        *)
(***************************************************************************)
\* C2: for N samples and 1 <= P <= N requested points, generate_waveform
\* returns Ok with exactly P points, each with min <= max.
C2_ExactlyPPoints ==
    ( /\ op = "waveform" /\ pc = "done"
      /\ 1 <= num_points /\ num_points <= Len(samples) )
    => /\ IsOk(result)
       /\ Len(result.v) = num_points
       /\ \A i \in 1..num_points : result.v[i].min <= result.v[i].max

\* C3: with N >= 1 decoded samples, generate_waveform returns the error "Audio
\* too short for requested resolution" whenever P > N, and returns an error,
\* not points, whenever floor(N / P) is 0 or undefined (P = 0).
C3_ErrorWhenTooShort ==
    (op = "waveform" /\ pc = "done" /\ samples # <<>>)
    => /\ num_points > Len(samples)
          => result = Err("Audio too short for requested resolution")
       /\ (num_points = 0 \/ Len(samples) \div num_points = 0) => IsErr(result)

(***************************************************************************)
(* Properties of analyze_audio.                                            *)
(***************************************************************************)
\* C4: whenever detect_bpm (called with 44100) returns Ok, its BPM is an
\* integer in 60..180, whichever lag won and also when none did (120); the
\* folding loops end.
C4_BpmInRange == bpm_out.some => bpm_out.v.bpm \in 60..180

\* lag 32 won: 187.5 BPM, halved once to 93.75 and rounded
C4_Witness ==
    /\ op = "analyze" /\ bpm_out.some
    /\ bpm_out.v.lag = 32
    /\ bpm_out.v.bpm = 94

\* C5: whenever analyze_audio succeeds, the BPM confidence and the key
\* confidence both lie in [0, 100].
C5_ConfidenceInRange ==
    (op = "analyze" /\ IsOk(result))
    => /\ result.v.bpm_confidence.v.d > 0
       /\ 0 <= result.v.bpm_confidence.v.n
       /\ result.v.bpm_confidence.v.n <= 100 * result.v.bpm_confidence.v.d
       /\ 0 <= result.v.key_confidence.v.lo
       /\ result.v.key_confidence.v.lo <= result.v.key_confidence.v.hi
       /\ result.v.key_confidence.v.hi <= 100

\* both confidences strictly inside the range
C5_Witness ==
    /\ op = "analyze" /\ IsOk(result)
    /\ 0 < result.v.bpm_confidence.v.n
    /\ result.v.bpm_confidence.v.n < 100 * result.v.bpm_confidence.v.d
    /\ 50 < result.v.key_confidence.v.lo
    /\ result.v.key_confidence.v.hi < 100

\* C6: analyze_audio of a file with decoded audio fails with "Audio too short
\* for BPM detection" exactly when the audio has fewer than 2 x the file's own
\* sample rate mono samples.
C6_TooShortByFileRate ==
    (op = "analyze" /\ pc = "done" /\ samples # <<>>)
    => (result = Err("Audio too short for BPM detection")
           <=> Len(samples) < 2 * sample_rate)

\* C7: analyze_audio returns Ok only when the samples were loaded and both
\* detectors succeeded, and then with the four fields all present; otherwise
\* it returns one error, and nothing before it is done.
C7_AllOrNothing ==
    op = "analyze"
    => /\ pc # "done" => result = None
       /\ pc = "done"
          => \/ /\ IsOk(result)
                /\ samples # <<>>
                /\ bpm_out.some
                /\ DOMAIN result.v = {"bpm", "bpm_confidence", "key", "key_confidence"}
                /\ \A field \in DOMAIN result.v : result.v[field].some
                /\ result.v.bpm.v = bpm_out.v.bpm
             \/ /\ IsErr(result)
                /\ result.err \in
                      OpenErrors \cup
                      {"No audio samples loaded", "Audio too short for BPM detection",
                       "Not enough data for BPM detection",
                       "Audio too short for key detection"}

\* a complete analysis: 150 BPM in A minor
C7_Witness ==
    /\ op = "analyze" /\ pc = "done" /\ IsOk(result)
    /\ result.v.bpm = Some(150)
    /\ result.v.key = Some("Am")

\* C8: the buffer of load_audio_samples never holds more than sample_rate x 60
\* samples, and detect_bpm and detect_key never run on an empty buffer.
C8_BufferCapped ==
    op = "analyze"
    => /\ Len(samples) <= sample_rate * MaxSeconds
       /\ (pc = "key" \/ bpm_out.some) => samples # <<>>

(***************************************************************************)
(* Properties of the four decode loops.                                    *)
(***************************************************************************)
\* C9: a packet that fails to decode adds nothing anywhere.  In
\* load_audio_samples and load_audio_samples_for_waveform the loop then goes
\* on whatever the error kind; in convert_to_mp3 and convert_to_mp3_trimmed it
\* goes on when the kind is DecodeError, and any other kind ends the operation
\* with the error "Failed to decode".
C9_DecodeFailureSkippedByKind ==
    [][ (n_read' = n_read + 1 /\ ev' \in DecodeFailures)
        => /\ samples' = samples /\ encoded' = encoded /\ written' = written
           /\ current_sample' = current_sample
           /\ IF op \in {"analyze", "waveform"} \/ ev' = "decode_error"
              THEN pc' = "loop" /\ result' = None
              ELSE pc' = "done" /\ result' = Err("Failed to decode") ]_vars

\* convert_to_mp3_trimmed past a DecodeError: the packet after it is encoded
C9_Witness ==
    /\ op = "trim" /\ pc = "loop" /\ decode_failed
    /\ ev = "decoded" /\ n_read = 2
    /\ encoded # <<>>

\* C9 as stated: after a decode failure of any kind, in any of the four loops,
\* the loop is still running and nothing has been returned.  (ev is the last
\* thing the loop met: every way out of a loop sets it.)
C9_DecodeFailureNeverAborts ==
    ev \in DecodeFailures => pc = "loop" /\ result = None

\* C10: every decode loop comes to its end, and the step that meets the end of
\* the stream leaves the loop for the code after it with nothing returned.
C10_LoopsTerminate ==
    /\ <>(pc \notin {"open", "loop"})
    /\ [][ (pc = "loop" /\ ev' \in {"no_packet", "eof"})
           => pc' \in {"loaded", "flush"} /\ result' = None ]_vars

\* convert_to_mp3 read its whole stream, met the end and returned Ok(())
C10_Witness ==
    /\ op = "convert" /\ pc = "done"
    /\ ev = "eof" /\ n_read = MaxPackets
    /\ result = Ok(<<>>)
    /\ written # <<>>

(***************************************************************************)
(* Properties of the encoder's flush.                                      *)
(***************************************************************************)
\* the errors returned from inside the packet loop of the two converters
LoopErrors ==
    {"Failed to read packet", "Failed to decode", "Failed to encode MP3",
     "Failed to write MP3 data"}

\* C11: a run of convert_to_mp3 or convert_to_mp3_trimmed that returns Ok has
\* flushed the encoder exactly once, and what it wrote is the encoded bytes of
\* each encode call followed by the flushed bytes, last; a run that returns an
\* error from the packet loop has not flushed; and no encode call and no write
\* of encoded bytes happens once the encoder has been flushed.
C11_FlushOnceAfterEncoding ==
    /\ [](op \in {"convert", "trim"}
          => /\ flushes <= 1
             /\ IsOk(result)
                => /\ flushes = 1
                   /\ written # <<>>
                   /\ written[Len(written)] = "flushed"
                   /\ \A i \in 1..(Len(written) - 1) : written[i] = "encoded"
             /\ (IsErr(result) /\ result.err \in LoopErrors)
                => /\ flushes = 0
                   /\ \A i \in 1..Len(written) : written[i] = "encoded")
    /\ [][ (encoded' # encoded \/ written' = Append(written, "encoded"))
           => flushes = 0 /\ flushes' = 0 ]_vars

\* convert_to_mp3_trimmed returned Ok after two encode calls and the flush
C11_Witness ==
    /\ op = "trim" /\ pc = "done" /\ IsOk(result)
    /\ flushes = 1
    /\ written = <<"encoded", "encoded", "flushed">>

(***************************************************************************)
(* convert_to_mp3 against convert_to_mp3_trimmed over the whole file.      *)
(***************************************************************************)
\* the loop is over and nothing has failed since
LoopLeft == pc = "flush" \/ (pc = "done" /\ IsOk(result))

\* C12: on the same packets convert_to_mp3_trimmed with start_sample = 0 and
\* end_sample the number of frames of the file hands the encoder what
\* convert_to_mp3 does, then flushes once as it does.  convert_to_mp3 leaves
\* its loop at the end of the stream having encoded every sample the decoder
\* returned.  convert_to_mp3_trimmed with start_sample = 0 leaves its loop at
\* the end of the stream or with its counter at end_sample or past it, so with
\* no frame of the file unread when end_sample is their number; and having
\* encoded every sample the decoder returned, when end_sample is not below the
\* frames read.
C12_FullTrimIsConvert ==
    /\ (op = "convert" /\ LoopLeft) => ev = "eof" /\ encoded = decoded
    /\ (op = "trim" /\ LoopLeft /\ start_sample = 0)
       => /\ ev = "eof" \/ current_sample >= end_sample
          /\ current_sample <= src_pos
          /\ end_sample >= src_pos => encoded = decoded
    /\ (op \in {"convert", "trim"} /\ pc = "done" /\ IsOk(result)) => flushes = 1

\* a file of two packets, the first of which fails to decode, trimmed to
\* 0..3, its three frames: the second packet is encoded whole
C12_Witness ==
    /\ op = "trim" /\ pc = "done" /\ IsOk(result)
    /\ start_sample = 0 /\ end_sample = 3 /\ src_pos = 3
    /\ decode_failed /\ ev = "eof"
    /\ encoded # <<>> /\ encoded = decoded
    /\ flushes = 1


\* C13: a cancel_download that runs while the converter is in its packet loop
\* stops the conversion before a further packet is read, and the download
\* returns Cancelled.
C13_CancelStopsConversion ==
    (cancel_at.at = "converting" /\ cancel_at.pc = "loop")
    => /\ n_read = cancel_at.n_read
       /\ dl_pc = "done" => dl_result = Err(Cancelled)


\* C14: a download command returns success only for a final file whose
\* conversion ran to completion, never for what a failed conversion left on disk.
C14_SuccessOnlyForCompleteFile ==
    (dl_pc = "done" /\ IsOk(dl_result)) => final_file \in {"complete", "tagged"}


\* C15: on the chromagram that is MAJOR_PROFILE moved to root r, detect_key
\* returns "<KEY_NAMES[r]> Major", for every r in 0..11.
C15_RotatedMajorProfile ==
    \A r \in 0..11 :
        (op = "detect_key" /\ pc = "done" /\ IsOk(result)
           /\ arg.chromagram = ProfileAt(MAJOR_PROFILE, r))
        => result.v.key = KEY_NAMES[r + 1] \o " Major"

C15_Witness ==
    /\ op = "detect_key" /\ pc = "done" /\ IsOk(result)
    /\ arg.chromagram = ProfileAt(MAJOR_PROFILE, 7)
    /\ result.v.key = "G Major"


\* C17: in convert_to_mp3_trimmed a decoded packet [packet_start, packet_end)
\* with packet_end <= start_sample or packet_start >= end_sample causes no
\* encode call and no write; a packet is read only in the loop, and once a
\* decoded packet has brought the counter to end_sample or past it the loop is
\* left: in the loop, after the first decoded packet, the counter is below
\* end_sample.
C17_SkipOutsideAndStopAtEnd ==
    /\ [](op = "trim" /\ pc = "loop" /\ decoded # <<>> => current_sample < end_sample)
    /\ [][ op = "trim"
           => /\ (/\ decoded' # decoded
                  /\ \/ current_sample + (src_pos' - src_pos) <= start_sample
                     \/ current_sample >= end_sample)
                 => /\ encoded' = encoded /\ written' = written /\ result' = result
                    /\ current_sample' = current_sample + (src_pos' - src_pos)
              /\ (n_read' # n_read \/ decoded' # decoded \/ encoded' # encoded)
                 => pc = "loop" ]_vars

\* a packet before the range was skipped, the next one encoded, and the loop
\* left because the counter reached end_sample
C17_Witness ==
    /\ op = "trim" /\ pc = "done" /\ IsOk(result) /\ ev = "decoded"
    /\ start_sample = 1 /\ end_sample = 4 /\ current_sample = 4
    /\ n_read = 2
    /\ Len(decoded) = 4 * channels /\ Len(encoded) = 3 * channels

\* C17 as stated: whenever the counter is at end_sample or past it, no packet
\* is read, decoded or encoded.
C17_NothingReadPastEnd ==
    [][ (op = "trim" /\ pc = "loop" /\ current_sample >= end_sample)
        => n_read' = n_read /\ decoded' = decoded /\ encoded' = encoded ]_vars


\* C18: a download during which cancel_download never ran does not return
\* Cancelled, whichever entry point started it and whatever was cancelled before.
C18_EarlierCancelForgotten ==
    (dl_pc = "done" /\ cancel_at = NotCancelled) => dl_result # Err(Cancelled)


\* the points whose segment holds the sample of index k (from 0)
PointsOf(k) ==
    {i \in 1..num_points :
        /\ SegmentStart(i, Len(samples) \div num_points) <= k
        /\ k < SegmentEnd(i, Len(samples) \div num_points, Len(samples))}

\* C19: when generate_waveform returns points, every sample index in [0, N)
\* belongs to the segment of exactly one point.
C19_SegmentsPartition ==
    (op = "waveform" /\ pc = "done" /\ IsOk(result))
    => \A k \in 0..(Len(samples) - 1) : Cardinality(PointsOf(k)) = 1


\* C20: when detect_bpm gets past its energy loop, for N samples with
\* frame_size = sample_rate / 10 and hop_size = sample_rate / 100, the number of
\* energy frames is the least k with k * hop_size >= N - frame_size, which is
\* ceil((N - frame_size) / hop_size), and the last frame read ends inside the
\* buffer.
C20_FrameCountIsCeiling ==
    (op = "detect_bpm" /\ pc = "done" /\ IsOk(result))
    => LET N == Len(samples)
           frame_size == sample_rate \div 10
           hop_size == sample_rate \div 100
       IN  /\ N > frame_size
           /\ result.v.frames = (N - frame_size + hop_size - 1) \div hop_size
           /\ (result.v.frames - 1) * hop_size + frame_size <= N

\* 601 samples at 300 Hz: 571 / 3 = 190.33, and 191 frames
C20_Witness ==
    /\ op = "detect_bpm" /\ pc = "done" /\ IsOk(result)
    /\ sample_rate = 300 /\ Len(samples) = 601
    /\ result.v.frames = 191

\* C20 as stated: the number of energy frames is floor((N - frame_size) / hop_size).
C20_FrameCountIsFloor ==
    (op = "detect_bpm" /\ pc = "done" /\ IsOk(result))
    => result.v.frames = (Len(samples) - (sample_rate \div 10)) \div (sample_rate \div 100)


\* every entry of v is the same number
IsConstant(v) == \A i \in 1..Len(v) : v[i] = v[1]

\* C16: pearson_correlation returns 0 whenever either of its input vectors is
\* constant.
C16_ZeroOnConstantVector ==
    (op = "pearson_correlation" /\ pc = "done"
       /\ (IsConstant(arg.x) \/ IsConstant(arg.y)))
    => ~result.v.nan /\ FIsZero(result.v.num)


(***************************************************************************)
(* The lag search of detect_bpm.                                           *)
(***************************************************************************)
\* the onsets detect_bpm computes from its buffer
BufferOnsets ==
    Onsets(Energies(samples, sample_rate \div 10, sample_rate \div 100))

\* `min_lag..max_lag`
LagRange(rate, hop_size, onsets_len) ==
    MinLag(rate, hop_size)..(MaxLag(rate, hop_size, onsets_len) - 1)

C22_ExistingFileShortCircuit ==
    [][ (dl_pc = "exists" /\ dl_pc' # "exists" /\ final_file # "absent")
        => /\ dl_pc' = "done"
           /\ dl_result' = DownloadResult
           /\ UNCHANGED <<final_file, temp_file, history, CANCEL_DOWNLOAD>>
           /\ UNCHANGED <<pc, n_read, ev, result, convVars>> ]_vars

\* the second download found the file of the first and returned success,
\* cancel_download having run between its entry and its check of the file
C22_Witness ==
    /\ n_downloads = 2
    /\ dl_pc = "done" /\ dl_result = DownloadResult
    /\ cancel_at.at = "exists" /\ CANCEL_DOWNLOAD
    /\ final_file = "tagged" /\ ~temp_file


\* C23: two download_audio_trimmed requests for the same artist and title
\* whose (start_time, end_time) differ resolve to different file names.
C23_DistinctRangesDistinctPaths ==
    (op = "final_filename" /\ pc = "done" /\ arg.first # arg.second)
    => result.v.first # result.v.second


\* C24: a cancel_download that ran when the download was about to make one of
\* its is_cancelled checks is observed by it: the download returns Cancelled.
C24_CancelAlwaysObserved ==
    (dl_pc = "done" /\ dl \in {"download_audio", "download_audio_trimmed"}
       /\ cancel_at.at \in {"check1", "check2", "check3"})
    => dl_result = Err(Cancelled)


(***************************************************************************)
(* The download queue.                                                     *)
(***************************************************************************)
\* the item is Complete with progress 100 and an output path and the call has
\* Ok, or it is Failed with progress 0 and an error and the call has Err
Settled(item, r) ==
    \/ /\ item.status = "Complete" /\ item.progress = 100 /\ item.output_path.some
       /\ IsOk(r)
    \/ /\ item.status = "Failed" /\ item.progress = 0 /\ item.error.some
       /\ IsErr(r)

\* C25: the last queue update of every process_queue_item call leaves its
\* item, if it is in the queue, Complete (100, output path, Ok) or Failed (0,
\* error, Err), whether the metadata or the download failed; and between that
\* update and the return of the call the item, while it stays in the queue, is
\* changed by nothing but a step of another process_queue_item call for the
\* same id.
C25_LastUpdateSettles ==
    /\ [][ \A c \in Calls :
             (/\ calls[c].pc # "return" /\ calls'[c].pc = "return"
              /\ calls[c].id \in DOMAIN DOWNLOAD_QUEUE')
             => Settled(DOWNLOAD_QUEUE'[calls[c].id], calls'[c].result) ]_vars
    /\ [][ \A c \in Calls :
             (/\ calls[c].pc = "return"
              /\ calls[c].id \in DOMAIN DOWNLOAD_QUEUE
              /\ calls[c].id \in DOMAIN DOWNLOAD_QUEUE'
              /\ DOWNLOAD_QUEUE'[calls[c].id] # DOWNLOAD_QUEUE[calls[c].id])
             => \E c2 \in Calls \ {c} :
                   /\ calls[c2].id = calls[c].id
                   /\ calls[c2].pc \notin {"idle", "done"}
                   /\ calls'[c2] # calls[c2] ]_vars

\* a call returned the failure of ytdlp_extract_info and its item is Failed
C25_Witness ==
    \E c \in Calls :
        /\ calls[c].pc = "done"
        /\ calls[c].result = Err("yt-dlp failed")
        /\ calls[c].id \in DOMAIN DOWNLOAD_QUEUE
        /\ DOWNLOAD_QUEUE[calls[c].id].status = "Failed"
        /\ DOWNLOAD_QUEUE[calls[c].id].progress = 0
        /\ DOWNLOAD_QUEUE[calls[c].id].error = Some("yt-dlp failed")

\* C25 as stated: every process_queue_item call returns with its item, if it
\* is in the queue, Complete or Failed.
C25_ReturnsSettled ==
    [][ \A c \in Calls :
           (/\ calls[c].pc = "return" /\ calls'[c].pc = "done"
            /\ calls[c].id \in DOMAIN DOWNLOAD_QUEUE')
           => Settled(DOWNLOAD_QUEUE'[calls[c].id], calls'[c].result) ]_vars

\* C26: only add_to_queue puts an id in the queue, an id that has left the
\* queue stays out of it, and a step of a process_queue_item call whose item
\* is not in the queue leaves the queue as it is.
C26_RemovedStaysRemoved ==
    [][ /\ n_added' = n_added => DOMAIN DOWNLOAD_QUEUE' \subseteq DOMAIN DOWNLOAD_QUEUE
        /\ \A id \in 1..n_added :
              id \notin DOMAIN DOWNLOAD_QUEUE => id \notin DOMAIN DOWNLOAD_QUEUE'
        /\ \A c \in Calls :
              (/\ calls[c].pc \notin {"idle", "done"}
               /\ calls'[c].pc # calls[c].pc
               /\ calls[c].id \notin DOMAIN DOWNLOAD_QUEUE)
              => DOWNLOAD_QUEUE' = DOWNLOAD_QUEUE ]_vars

\* the item was removed while the call was running; the call went on to its
\* last update and returned Ok, and the queue is empty
C26_Witness ==
    \E c \in Calls :
        /\ calls[c].pc = "done" /\ IsOk(calls[c].result)
        /\ calls[c].orphaned
        /\ n_added = 1
        /\ DOWNLOAD_QUEUE = <<>>


(***************************************************************************)
(* The counter of convert_to_mp3_trimmed.                                  *)
(***************************************************************************)
\* the errors of encode and of the write that follows it, returned before the
\* counter is updated
EncodeErrors == {"Failed to encode MP3", "Failed to write MP3 data"}

\* C27: in convert_to_mp3_trimmed, as long as no encode or write has failed,
\* current_sample is the number of frames the decoder has returned so far; it
\* is never above the frames read of the track, and a packet of another track
\* or one that fails to decode leaves it as it is.
C27_CounterCountsDecodedFrames ==
    /\ []((op = "trim" /\ ~(IsErr(result) /\ result.err \in EncodeErrors))
          => /\ current_sample * channels = Len(decoded)
             /\ current_sample <= src_pos)
    /\ [][ (op = "trim" /\ ev' \in DecodeFailures \cup {"other_track"}
              /\ n_read' = n_read + 1)
           => current_sample' = current_sample /\ decoded' = decoded ]_vars

\* the first packet failed to decode: the counter is behind the source, and
\* the first sample encoded is later in the source than start_sample
C27_Witness ==
    /\ op = "trim" /\ pc = "done" /\ IsOk(result)
    /\ decode_failed /\ current_sample < src_pos
    /\ start_sample = 1
    /\ encoded # <<>>
    /\ encoded[1] > start_sample * channels


(***************************************************************************)
(* convert_to_mp3_trimmed on a range that is empty or inverted.            *)
(***************************************************************************)
\* the trim positions are computed and start_sample >= end_sample
EmptyRange == op = "trim" /\ pc # "open" /\ out_created /\ start_sample >= end_sample

\* what convert_to_mp3_trimmed can return when nothing is ever encoded
NoEncodeErrors ==
    {"Failed to read packet", "Failed to decode", "Failed to flush MP3 encoder",
     "Failed to write final MP3 data"}

\* C28: with start_sample >= end_sample convert_to_mp3_trimmed never calls
\* encode and writes no encoded bytes; for a packet that holds both positions
\* the offsets it computes are inside the packet, with trim_end <= trim_start;
\* a packet is decoded only when none was decoded before or the counter is
\* below end_sample; it returns Ok after one flush and one write, the flushed
\* bytes, or the error of a read, of a decode or of the flush.
C28_EmptyRangeEncodesNothing ==
    /\ [](EmptyRange
          => /\ encoded = <<>>
             /\ \A i \in 1..Len(written) : written[i] = "flushed"
             /\ IsOk(result) => flushes = 1 /\ written = <<"flushed">>
             /\ IsErr(result) => result.err \in NoEncodeErrors)
    /\ [][ (EmptyRange /\ decoded' # decoded)
           => /\ decoded = <<>> \/ current_sample < end_sample
              /\ LET len == Len(decoded') - Len(decoded)
                     packet_end == current_sample + (len \div channels)
                 IN  (packet_end > start_sample /\ current_sample < end_sample)
                     => /\ 0 <= TrimEnd(packet_end, len, channels)
                        /\ TrimEnd(packet_end, len, channels)
                              <= TrimStart(current_sample, channels)
                        /\ TrimStart(current_sample, channels) <= len ]_vars

\* start_sample = end_sample = 1 and one packet of three frames, which holds
\* both: nothing was encoded, the loop was left, the flush written, Ok
C28_Witness ==
    /\ EmptyRange /\ pc = "done" /\ IsOk(result)
    /\ start_sample = 1 /\ end_sample = 1
    /\ n_read = 1 /\ Len(decoded) = 3 * channels
    /\ encoded = <<>> /\ written = <<"flushed">>

\* C28 as stated: with start_sample >= end_sample no packet is decoded once
\* the counter is at end_sample or past it.
C28_NoDecodeAtEnd ==
    [][ (EmptyRange /\ current_sample >= end_sample) => decoded' = decoded ]_vars


(***************************************************************************)
(* The output file of the converters.                                      *)
(***************************************************************************)
\* C29: convert_to_mp3 and convert_to_mp3_trimmed create the output file in
\* the step that has opened and probed the input, found the track and its
\* sample rate and built the decoder and the encoder, and in no other; when one
\* of those fails the converter returns its error with no file created and
\* nothing read or written, and the download that called it returns a
\* conversion error with nothing at the final path.
C29_OutputCreatedAfterSetup ==
    /\ []((op \in {"convert", "trim"} /\ IsErr(result) /\ result.err \in ConvertOpenErrors)
          => /\ pc = "done"
             /\ ~out_created
             /\ n_read = 0 /\ written = <<>>)
    /\ []((dl_pc = "done" /\ IsErr(dl_result)
             /\ dl_result.err \in {ConversionError(e) : e \in ConvertOpenErrors})
          => final_file = "absent")
    /\ [][ (~out_created /\ out_created')
           => pc = "open" /\ pc' = "loop" /\ result' = None ]_vars

\* the decoder could not be built: the download returned the conversion
\* error, the downloaded file is still there and no output file is
C29_Witness ==
    /\ dl_pc = "done"
    /\ dl_result = Err(ConversionError("Failed to create decoder"))
    /\ result = Err("Failed to create decoder")
    /\ ~out_created
    /\ final_file = "absent" /\ temp_file

====
